---- MODULE Spec2Model ----
(***************************************************************************)
(* Model of the outbound-call infrastructure of QBO-MCP-TS:                *)
(*   - QueueService   (simple rate limiter, services/queue variant without *)
(*                     external dependencies)                              *)
(*   - QBOApiClient   (src/api/client.ts: token refresh, 401 handling,     *)
(*                     error classification, axios-retry wiring,           *)
(*                     getCurrentUser)                                     *)
(*   - CacheService   (persistent variant: SHA-256 keys, evictLRU, disk    *)
(*                     snapshot)                                           *)
(*   - QueueService   (p-queue variant: add, pause, clear, shutdown,       *)
(*                     addWithRetry, createRateLimitedExecutor)            *)
(*   - CacheService   (in-memory variant, src/services/cache.ts: hashed    *)
(*                     keys, get, set, delete, clear, cleanup)             *)
(*   - InvoiceService and the server's direct calls of the API client      *)
(* Each component has its own next-state relation and specification; the   *)
(* variables of the other components stay unchanged under it.              *)
(***************************************************************************)
EXTENDS Integers, Sequences, FiniteSets, TLC

VARIABLES
    \* ---- QueueService --------------------------------------------------
    queue,             \* this.queue: pending tasks, in order
    activeTasks,       \* this.activeTasks
    requestsInWindow,  \* this.requestsInWindow: start timestamps (ms)
    processing,        \* this.processing
    qnow,              \* Date.now() as seen by the queue (ms)
    taskState,         \* per task: new / pending / running / resolved / rejected / discarded
    startTimes,        \* history: the time of every transition to running, in order
    paused,            \* history: pause() was called and resume() not since
    \* ---- QBOApiClient --------------------------------------------------
    tokens,              \* this.tokens: accessToken (0 is the initial ''), expiresAt (ms)
    tokenRefreshPromise, \* this.tokenRefreshPromise: 0 (undefined) or a token call
    calls,               \* calls to the token endpoint, in order: state, origin, req
    rpc,                 \* per request: idle / awaitRefresh / inflight / await401 / done
    rawait,              \* per request: the token call it awaits
    sends,               \* per request: number of dispatches of the HTTP request
    sentToken,           \* per request: the access token attached at each dispatch
    sentFresh,           \* per request: at each dispatch, the token was outside the buffer
    received,            \* per request: the latest response (status, data, retry-after)
    thrown,              \* per request: the error the caller received
    userSent,            \* getCurrentUser: the token attached at each call, and was it fresh
    retryFlag,           \* per request: config.retry (set by the 401 branch)
    retryCount,          \* per request: config['axios-retry'].retryCount
    retryDelays,         \* per request: the delays axios-retry waited, in order
    outcome,             \* per request: none / ok / the kind of error the caller sees
    n401,                \* per request: number of 401 responses received
    refreshes401,        \* per request: refreshes started by the 401 branch
    firstRefresh,        \* per request: the token call awaited before its first dispatch
    cnow,                \* Date.now() as seen by the client (ms)
    \* ---- CacheService (persistent variant) -----------------------------
    cache,       \* this.cache: the Map's entries in insertion order
    persist,     \* cacheConfig.enabled: persistPath is set, load and sweep are on
    disk,        \* the file at persistPath: NoFile, or the entries written last
    loaded,      \* the asynchronous loadFromDisk() of the constructor has finished
    know,        \* Date.now() as seen by the cache (ms)
    ops,         \* number of calls of set/get/delete/clear so far
    used,        \* number of distinct keys the callers have named so far
    bootFile,    \* the persistence file as it was at construction
    lastSet,     \* history: the latest set (key, at, ttl argument, value)
    lastGet,     \* history: the get that has just returned (key, ret, afterSet)
    justSet,     \* history: a set has just returned (nothing happened since)
    lastEvict,   \* history: the evictLRU call of the set that has just returned
    cleared,     \* history: clear() has been called and set() not since
    lastSweep,   \* history: the cleanup() run that has just returned (before, at)
    lastLoad,    \* history: the loadFromDisk() that has just returned (data, before, at)
    writes,      \* the fs.writeFile calls of saveToDisk() still in progress: their data
    \* ---- QueueService.addWithRetry (p-queue variant) --------------------
    awPhase,      \* idle / queued / attempt / backoff / done
    awRetries,    \* options.retries of the call
    awFails,      \* how many times the task fails before it succeeds
    awFailed,     \* how many times the task has failed so far
    awAttempt,    \* the loop variable attempt
    awElapsed,    \* ms since p-queue started the function
    awInSlot,     \* p-queue counts the function as running
    awAdmissions, \* history: how many times p-queue started a function for the call
    awOnRetry,    \* history: the attempt numbers onRetry was called with
    awDelays,     \* history: the backoff delays (ms) waited, in order
    awOutside,    \* history: attempts of the task made after the slot was given up
    awOutcome,    \* none / value / lastError / TimeoutError: what the caller gets
    \* ---- InvoiceService and the server's own calls ----------------------
    iops,          \* number of business operations so far
    serverVersion, \* the state of the invoices at QuickBooks: 1 + number of updates
    lastOp,        \* history: the operation that has just returned
    \* ---- QueueService (p-queue variant): add, pause, clear, shutdown ----
    pqQueue,         \* the PQueue's waiting functions, in order
    pqTask,          \* per task: new / waiting / running / detached / returned / threw / discarded
    pqFuture,        \* per task: the promise add() returned: pending / value / error / TimeoutError
    pqStart,         \* per task: when the PQueue started it (ms)
    pqPaused,        \* PQueue.isPaused
    pqIntervalCount, \* functions started in the current interval
    pqNow,           \* Date.now() as seen by the PQueue (ms)
    pqShutdown,      \* shutdown(): none / waiting (in await onIdle()) / returned
    pqLate,          \* history: tasks started after shutdown() was called
    \* ---- QueueService.createRateLimitedExecutor (p-queue variant) -------
    requestTimes,    \* the executor's requestTimes array (ms)
    exQueue,         \* the PQueue's waiting functions, in order
    exTask,          \* per task: new / queued / waiting / running / done
    exWake,          \* per task: when its setTimeout(resolve, waitTime) fires (ms)
    exIntervalCount, \* functions the PQueue started in the current interval
    exNow,           \* Date.now() (ms)
    exStarts,        \* history: when each task() was called, in order
    \* ---- CacheService (in-memory variant, services/cache.ts) -----------
    memCache,        \* this.cache: the Map's entries in insertion order
    memNow,          \* Date.now() as seen by this cache (ms)
    memOps,          \* number of calls of set/get/delete/clear so far
    memWritten,      \* history: per logical key, the value its latest set stored
    memLastGet       \* history: the get that has just returned (key, ret)

qvars == <<queue, activeTasks, requestsInWindow, processing, qnow, taskState, startTimes,
           paused>>

cvars == <<tokens, tokenRefreshPromise, calls, rpc, rawait, sends, sentToken, sentFresh,
           received, thrown, userSent, retryFlag, retryCount, retryDelays, outcome, n401,
           refreshes401, firstRefresh, cnow>>

kvars == <<cache, persist, disk, loaded, know, ops, used, bootFile, lastSet, lastGet, justSet,
           lastEvict, cleared, lastSweep, lastLoad>>

awvars == <<awPhase, awRetries, awFails, awFailed, awAttempt, awElapsed, awInSlot,
            awAdmissions, awOnRetry, awDelays, awOutside, awOutcome>>

ivars == <<iops, serverVersion, lastOp>>

pvars == <<pqQueue, pqTask, pqFuture, pqStart, pqPaused, pqIntervalCount, pqNow, pqShutdown,
           pqLate>>

evars == <<requestTimes, exQueue, exTask, exWake, exIntervalCount, exNow, exStarts>>

\* The writes to the persistence file that outlive the call that started them.
wvars == <<writes>>

mvars == <<memCache, memNow, memOps, memWritten, memLastGet>>

vars == <<qvars, cvars, kvars, awvars, ivars, pvars, evars, mvars, wvars>>

\* What each component's actions leave alone.
notQueue == <<cvars, kvars, awvars, ivars, pvars, evars, mvars, wvars>>
notClient == <<qvars, kvars, awvars, ivars, pvars, evars, mvars, wvars>>
notCache == <<qvars, cvars, awvars, ivars, pvars, evars, mvars, wvars>>
notRetry == <<qvars, cvars, kvars, ivars, pvars, evars, mvars, wvars>>
notPQueue == <<qvars, cvars, kvars, awvars, ivars, evars, mvars, wvars>>
notExecutor == <<qvars, cvars, kvars, awvars, ivars, pvars, mvars, wvars>>
\* What a call of the cache that leaves a write in progress leaves alone.
notCacheWrites == <<qvars, cvars, awvars, ivars, pvars, evars, mvars>>
notMem == <<qvars, cvars, kvars, awvars, ivars, pvars, evars, wvars>>
\* The business operations use the cache: they leave alone the rest, and of
\* the cache all but its entries and (in the clock step) its clock.
notInvoice == <<qvars, cvars, awvars, pvars, evars, mvars, wvars, persist, disk, loaded, ops, used, bootFile, lastSet,
                lastGet, justSet, lastEvict, cleared, lastSweep, lastLoad>>

(***************************************************************************)
(*                              QueueService                               *)
(***************************************************************************)

\* Parameters of new QueueService(rateLimitPerMinute, concurrency), kept small.
rateLimitPerMinute == 3
concurrency == 2
\* Number of tasks a run may submit, and how far the clock may advance.
NumTasks == 4
MaxQueueTicks == 4

\* The trailing window of cleanOldRequests: Date.now() - 60000.
WindowMs == 60000
\* The clock advances in steps of half a window, so that a timestamp is seen
\* at ages 0, 30000 (inside), 60000 (exactly on the edge) and beyond.
QueueTickMs == WindowMs \div 2

Tasks == 1..NumTasks

\* The _priority argument of add(fn, _priority): the priorities of the tasks
\* cycle through 0 .. NumPriorities - 1 in the order they are added, so that
\* a lower priority is added before a higher one and the other way round.
\* add never reads the argument.
NumPriorities == 2
priorityOf(t) == (t - 1) % NumPriorities

\* cleanOldRequests: keep the timestamps strictly newer than one minute ago.
cleanOldRequests(w, now) ==
    LET oneMinuteAgo == now - WindowMs
    IN  SelectSeq(w, LAMBDA time : time > oneMinuteAgo)

\* trackRequest: this.requestsInWindow.push(Date.now())
trackRequest(w, now) == Append(w, now)

\* First test of canProcessNext: this.activeTasks >= this.concurrency.
concurrencyReachedOffByOne(a) == a > concurrency
concurrencyReached(a) == a >= concurrency

\* Second test of canProcessNext: requestsInWindow.length < rateLimitPerMinute.
rateHasRoomOffByOne(w) == Len(w) <= rateLimitPerMinute
rateHasRoom(w) == Len(w) < rateLimitPerMinute

\* canProcessNext: the answer, and requestsInWindow as it leaves it (the
\* window is cleaned only when the concurrency test did not return first).
canProcessNext(a, w, now) ==
    IF concurrencyReached(a)
    THEN [ok |-> FALSE, requestsInWindow |-> w]
    ELSE LET cleaned == cleanOldRequests(w, now)
         IN  [ok |-> rateHasRoom(cleaned), requestsInWindow |-> cleaned]

\* The while loop of process(): shift, activeTasks++, trackRequest, task().
RECURSIVE processLoop(_, _, _, _, _)
processLoop(q, a, w, now, started) ==
    IF Len(q) = 0
    THEN [queue |-> q, activeTasks |-> a, requestsInWindow |-> w, started |-> started]
    ELSE LET can == canProcessNext(a, w, now)
         IN  IF can.ok
             THEN processLoop(Tail(q), a + 1,
                              trackRequest(can.requestsInWindow, now), now,
                              Append(started, Head(q)))
             ELSE [queue |-> q, activeTasks |-> a,
                   requestsInWindow |-> can.requestsInWindow, started |-> started]

\* process(): returns at once when this.processing is set; otherwise runs the
\* loop to its end (there is no await in it) and resets the flag.
process(proc, q, a, w, now) ==
    IF proc
    THEN [queue |-> q, activeTasks |-> a, requestsInWindow |-> w,
          started |-> <<>>, processing |-> TRUE]
    ELSE [processing |-> FALSE] @@ processLoop(q, a, w, now, <<>>)

SeqToSet(s) == {s[i] : i \in 1..Len(s)}

\* The state after a call of process() on queue q with a active tasks.
ApplyProcess(q, a, ts) ==
    LET r == process(processing, q, a, requestsInWindow, qnow)
    IN  /\ queue' = r.queue
        /\ activeTasks' = r.activeTasks
        /\ requestsInWindow' = r.requestsInWindow
        /\ processing' = r.processing
        /\ taskState' = [t \in Tasks |->
                            IF t \in SeqToSet(r.started) THEN "running" ELSE ts[t]]
        /\ startTimes' = startTimes \o [i \in 1..Len(r.started) |-> qnow]

\* add(fn): this.queue.push(task); this.process(). Tasks are submitted in
\* the order of their numbers.
Queue_add(t) ==
    /\ taskState[t] = "new"
    /\ \A u \in Tasks : u < t => taskState[u] # "new"
    /\ ApplyProcess(Append(queue, t), activeTasks, [taskState EXCEPT ![t] = "pending"])
    /\ UNCHANGED <<qnow, paused, notQueue>>

\* .finally(() => { this.activeTasks--; ... }): runs whether fn resolved or
\* threw.
onlyOnSuccess(a, ok) == IF ok THEN a - 1 ELSE a
finally(a, ok) == a - 1

\* task().finally(...): a running task settles (fn resolved or threw);
\* activeTasks--, then process().
Queue_settle(t, ok) ==
    /\ taskState[t] = "running"
    /\ ApplyProcess(queue, finally(activeTasks, ok),
                    [taskState EXCEPT ![t] = IF ok THEN "resolved" ELSE "rejected"])
    /\ UNCHANGED <<qnow, paused, notQueue>>

\* this.queue.length = 0
truncateAllButFirst(q) == SubSeq(q, 1, 1)
truncate(q) == <<>>

\* clear(): this.queue.length = 0. The discarded tasks' promises are left
\* unsettled.
Queue_clear ==
    /\ Len(queue) > 0
    /\ queue' = truncate(queue)
    /\ taskState' = [t \in Tasks |->
                        IF t \in SeqToSet(queue) THEN "discarded" ELSE taskState[t]]
    /\ UNCHANGED <<activeTasks, requestsInWindow, processing, qnow, startTimes, paused,
                   notQueue>>

\* pause(): this.processing = false.
Queue_pause ==
    /\ processing' = FALSE
    /\ paused' = TRUE
    /\ UNCHANGED <<queue, activeTasks, requestsInWindow, qnow, taskState, startTimes, notQueue>>

\* resume(): this.process().
Queue_resume ==
    /\ ApplyProcess(queue, activeTasks, taskState)
    /\ paused' = FALSE
    /\ UNCHANGED <<qnow, notQueue>>

\* getStats(): cleans the window as a side effect.
Queue_getStats ==
    /\ requestsInWindow' = cleanOldRequests(requestsInWindow, qnow)
    /\ requestsInWindow' # requestsInWindow
    /\ UNCHANGED <<queue, activeTasks, processing, qnow, taskState, startTimes, paused,
                   notQueue>>

\* The clock advances.
Queue_tick ==
    /\ qnow < MaxQueueTicks * QueueTickMs
    /\ qnow' = qnow + QueueTickMs
    /\ UNCHANGED <<queue, activeTasks, requestsInWindow, processing, taskState, startTimes,
                   paused, notQueue>>

Queue_settleAny == \E t \in Tasks, ok \in BOOLEAN : Queue_settle(t, ok)

(***************************************************************************)
(*                              QBOApiClient                               *)
(***************************************************************************)

\* Requests a run may issue, token-endpoint calls it may make, clock steps.
NumReqs == 2
MaxTokenCalls == 3
MaxClientTicks == 3
\* Calls of getCurrentUser a run may make.
MaxUserCalls == 1

\* ensureValidToken's buffer: expiresAt.getTime() - 60000.
BufferMs == 60000
\* data.expires_in * 1000 of the token endpoint's answer (three buffers here).
TokenLifeMs == 3 * BufferMs
\* apiConfig.retryAttempts and apiConfig.retryDelay (their defaults).
retryAttempts == 3
retryDelay == 1000
\* apiConfig.enableRetry (its default).
enableRetry == TRUE

Reqs == 1..NumReqs

\* HTTP statuses the API may answer with; 0 stands for no response at all
\* (connection reset, timeout: error.request is set, error.response is not).
NoResponse == 0
Statuses == {200, 400, 401, 429, 503, NoResponse}
\* Further statuses: two of the 4xx class with a case of their own in the
\* response handler and one without, and a 5xx status without one.
MoreStatuses == {403, 404, 409, 501}

\* JavaScript values as the errors carry them: undefined, a number, NaN, the
\* body of a response, an object literal with one property.
Undefined == [kind |-> "undefined", n |-> 0, of |-> ""]
Num(n) == [kind |-> "number", n |-> n, of |-> ""]
NotANumber == [kind |-> "NaN", n |-> 0, of |-> ""]
Body(status) == [kind |-> "body", n |-> status, of |-> ""]
Object(property, v) == [kind |-> v.kind, n |-> v.n, of |-> property]

\* The Retry-After header of a response: absent, delay-seconds (a decimal
\* number of seconds) or an HTTP-date.
NoHeader == [form |-> "absent", seconds |-> 0]
DelaySeconds(n) == [form |-> "delay-seconds", seconds |-> n]
HttpDate == [form |-> "HTTP-date", seconds |-> 0]
RetryAfterHeaders == {NoHeader, DelaySeconds(0), DelaySeconds(60), HttpDate}

\* error.response.headers['retry-after'] is a string or undefined; a string
\* is truthy unless empty, and a header that is present is not empty.
headerTruthy(h) == h.form # "absent"
\* parseInt(retryAfter): the leading decimal digits as a number, NaN when the
\* string does not start with digits (an HTTP-date starts with a day name).
parseInt(h) == IF h.form = "delay-seconds" THEN Num(h.seconds) ELSE NotANumber

\* A response: its status, its data (the body) and its Retry-After header;
\* NoReply where there is none.
Response(status, retryAfter) ==
    [status |-> status, data |-> Body(status), retryAfter |-> retryAfter]
NoReply == [status |-> NoResponse, data |-> Undefined, retryAfter |-> NoHeader]

RECURSIVE Pow2(_)
Pow2(n) == IF n <= 0 THEN 1 ELSE 2 * Pow2(n - 1)

\* The client's state as one record, so that the handlers are functions of it.
ClientState ==
    [tokens |-> tokens, tokenRefreshPromise |-> tokenRefreshPromise, calls |-> calls,
     rpc |-> rpc, rawait |-> rawait, sends |-> sends, sentToken |-> sentToken,
     sentFresh |-> sentFresh, received |-> received, thrown |-> thrown,
     retryFlag |-> retryFlag, retryCount |-> retryCount, retryDelays |-> retryDelays,
     outcome |-> outcome, n401 |-> n401, refreshes401 |-> refreshes401,
     firstRefresh |-> firstRefresh]

SetClientState(st) ==
    /\ tokens' = st.tokens
    /\ tokenRefreshPromise' = st.tokenRefreshPromise
    /\ calls' = st.calls
    /\ rpc' = st.rpc
    /\ rawait' = st.rawait
    /\ sends' = st.sends
    /\ sentToken' = st.sentToken
    /\ sentFresh' = st.sentFresh
    /\ received' = st.received
    /\ thrown' = st.thrown
    /\ retryFlag' = st.retryFlag
    /\ retryCount' = st.retryCount
    /\ retryDelays' = st.retryDelays
    /\ outcome' = st.outcome
    /\ n401' = st.n401
    /\ refreshes401' = st.refreshes401
    /\ firstRefresh' = st.firstRefresh

\* An error as the response interceptors see it. An AxiosError carries the
\* request's config, and a response (status) or only the request; the error
\* classes of ../types (QBOError and its subclasses) carry neither.
AxiosError(response) ==
    [name |-> "AxiosError", status |-> response.status, hasConfig |-> TRUE,
     hasRequest |-> TRUE, code |-> "", statusCode |-> Undefined, details |-> Undefined,
     response |-> response]
\* new QBOError(message, code, statusCode, details), under the name the
\* callers see: the class name, and for QBOError itself also the code.
QBOError(name, code, statusCode, details) ==
    [name |-> name, status |-> NoResponse, hasConfig |-> FALSE, hasRequest |-> FALSE,
     code |-> code, statusCode |-> statusCode, details |-> details,
     response |-> NoReply]
AuthenticationError(details) ==
    QBOError("AuthenticationError", "AUTH_ERROR", Num(401), details)
RateLimitError(retryAfter) ==
    QBOError("RateLimitError", "RATE_LIMIT", Num(429), Object("retryAfter", retryAfter))
NetworkError(details) ==
    QBOError("NetworkError", "NETWORK_ERROR", Num(503), details)
\* No error: the caller's promise is pending or fulfilled.
NoError == QBOError("none", "", Undefined, Undefined)

\* ensureValidToken: now >= expiryBuffer.
needsRefresh(tok, now) == now >= tok.expiresAt - BufferMs

\* ensureValidToken: if (!this.tokenRefreshPromise), a refresh is started.
startsOwnRefreshAlways(promise) == TRUE
startsOwnRefresh(promise) == promise = 0

\* 401 branch: (error.config as any).retry = true.
markRetriedForgotten(flag) == flag
markRetried(flag) == TRUE

\* refreshAccessToken up to its await: one more call to the token endpoint.
startTokenCall(st, origin, r) ==
    [st EXCEPT !.calls = Append(@, [state |-> "inflight", origin |-> origin, req |-> r])]

\* The request leaves with Authorization: Bearer <this.tokens.accessToken>.
dispatch(st, r, now) ==
    [st EXCEPT !.rpc[r] = "inflight",
               !.sends[r] = @ + 1,
               !.sentToken[r] = Append(@, st.tokens.accessToken),
               !.sentFresh[r] = Append(@, ~needsRefresh(st.tokens, now))]

\* The caller's promise settles: fulfilled, or rejected with an error.
finish(st, r, result) == [st EXCEPT !.rpc[r] = "done", !.outcome[r] = result]
reject(st, r, error) ==
    [st EXCEPT !.rpc[r] = "done", !.outcome[r] = error.name, !.thrown[r] = error]

\* The client's response error handler (registered first, so first to run):
\* what it does with an error.
clientOnRejected(err, flag) ==
    LET status == err.response.status
        data == err.response.data
        retryAfter == err.response.retryAfter
    IN
    IF err.name = "AxiosError" /\ err.status # NoResponse
    THEN CASE status = 401 ->
                 IF ~flag THEN [do |-> "refresh", error |-> err]
                 ELSE [do |-> "throw", error |-> AuthenticationError(data)]
           [] status = 429 ->
                 [do |-> "throw",
                  error |-> RateLimitError(IF headerTruthy(retryAfter)
                                           THEN parseInt(retryAfter) ELSE Undefined)]
           [] status = 400 ->
                 [do |-> "throw",
                  error |-> QBOError("QBOError:VALIDATION_ERROR", "VALIDATION_ERROR",
                                     Num(400), data)]
           [] status = 403 ->
                 [do |-> "throw",
                  error |-> QBOError("QBOError:FORBIDDEN", "FORBIDDEN", Num(403), data)]
           [] status = 404 ->
                 [do |-> "throw",
                  error |-> QBOError("QBOError:NOT_FOUND", "NOT_FOUND", Num(404), data)]
           [] status \in {500, 502, 503, 504} ->
                 [do |-> "throw", error |-> NetworkError(data)]
           [] OTHER ->
                 [do |-> "throw",
                  error |-> QBOError("QBOError:UNKNOWN_ERROR", "UNKNOWN_ERROR",
                                     Num(status), data)]
    ELSE IF err.hasRequest
         THEN [do |-> "throw", error |-> NetworkError(Undefined)]
         ELSE [do |-> "throw",
               error |-> QBOError("QBOError:REQUEST_ERROR", "REQUEST_ERROR",
                                  Undefined, Undefined)]

\* retryCondition of the axiosRetry options: network errors and 5xx.
retryCondition(err) ==
    \/ (err.name = "AxiosError" /\ err.status = NoResponse)
    \/ err.status >= 500

\* retryDelay of the axiosRetry options.
retryDelayFn(count) == retryDelay * Pow2(count - 1)

\* The response error handler axios-retry installs (registered by axiosRetry(),
\* after the client's own, so it sees what the client's handler threw): it
\* gives up at once on an error without config, else retries while the count
\* is below `retries` and retryCondition holds.
axiosRetryOnAnyError(err, count) == count < retryAttempts
axiosRetryOnRejected(err, count) ==
    IF ~enableRetry \/ ~err.hasConfig THEN FALSE
    ELSE count < retryAttempts /\ retryCondition(err)

RECURSIVE requestInterceptor(_, _, _)
RECURSIVE onRejected(_, _, _, _)

\* The request interceptor: await ensureValidToken(), then attach the token
\* and let the request go. ensureValidToken starts a refresh when none is
\* stored, awaits the stored promise, and clears it after a successful await;
\* awaiting a stored promise that is already rejected throws at once.
requestInterceptor(st, r, now) ==
    LET p == st.tokenRefreshPromise
        first == st.sends[r] = 0
    IN  IF ~needsRefresh(st.tokens, now)
        THEN dispatch(st, r, now)
        ELSE IF startsOwnRefresh(p)
        THEN LET s1 == startTokenCall(st, "ensure", r)
                 c == Len(s1.calls)
             IN  [s1 EXCEPT !.tokenRefreshPromise = c,
                            !.rpc[r] = "awaitRefresh",
                            !.rawait[r] = c,
                            !.firstRefresh[r] = IF first THEN c ELSE @]
        ELSE IF st.calls[p].state = "inflight"
        THEN [st EXCEPT !.rpc[r] = "awaitRefresh",
                        !.rawait[r] = p,
                        !.firstRefresh[r] = IF first THEN p ELSE @]
        ELSE IF st.calls[p].state = "failed"
        THEN onRejected(st, r, AuthenticationError(Undefined), now)
        ELSE dispatch([st EXCEPT !.tokenRefreshPromise = 0], r, now)

\* What follows a throw of the client's handler: axios-retry's handler, which
\* re-sends the request (through the request interceptor) or lets the error
\* reach the caller.
afterClientThrow(st, r, error, now) ==
    IF axiosRetryOnRejected(error, st.retryCount[r])
    THEN LET n == st.retryCount[r] + 1
         IN  requestInterceptor([st EXCEPT !.retryCount[r] = n,
                                           !.retryDelays[r] = Append(@, retryDelayFn(n))],
                                r, now)
    ELSE reject(st, r, error)

\* The chain of response error handlers on error err of request r. In the
\* 401 branch the handler sets config.retry and calls refreshAccessToken()
\* itself (not through tokenRefreshPromise), then awaits it.
onRejected(st, r, err, now) ==
    LET h == clientOnRejected(err, st.retryFlag[r])
    IN  IF h.do = "refresh"
        THEN LET s1 == startTokenCall(st, "r401", r)
                 c == Len(s1.calls)
             IN  [s1 EXCEPT !.retryFlag[r] = markRetried(@),
                            !.rpc[r] = "await401",
                            !.rawait[r] = c,
                            !.refreshes401[r] = @ + 1]
        ELSE afterClientThrow(st, r, h.error, now)

\* The requests awaiting tokenRefreshPromise resume: after a successful
\* refresh each clears tokenRefreshPromise and is dispatched; after a failed
\* one the await throws (tokenRefreshPromise is left as it is).
RECURSIVE resumeWaiters(_, _, _, _)
resumeWaiters(st, W, ok, now) ==
    IF W = {} THEN st
    ELSE LET r == CHOOSE x \in W : \A y \in W : x <= y
             s1 == IF ok
                   THEN dispatch([st EXCEPT !.tokenRefreshPromise = 0], r, now)
                   ELSE onRejected(st, r, AuthenticationError(Undefined), now)
         IN  resumeWaiters(s1, W \ {r}, ok, now)

\* refreshAccessToken after its await: on success this.tokens is replaced (a
\* new access token, expiresAt = now + expires_in), on failure it throws
\* AuthenticationError. Then whoever awaited the call goes on: the waiters of
\* ensureValidToken, or the 401 branch, which re-sends the request.
settleTokenCall(st, c, ok, now) ==
    LET call == st.calls[c]
        s1 == [st EXCEPT !.calls[c].state = IF ok THEN "ok" ELSE "failed",
                         !.tokens = IF ok
                                    THEN [accessToken |-> c, expiresAt |-> now + TokenLifeMs]
                                    ELSE @]
    IN  IF call.origin = "ensure"
        THEN resumeWaiters(s1, {r \in Reqs : st.rpc[r] = "awaitRefresh" /\ st.rawait[r] = c},
                           ok, now)
        ELSE IF ok
             THEN requestInterceptor(s1, call.req, now)
             ELSE afterClientThrow(s1, call.req, AuthenticationError(Undefined), now)

\* A caller issues a request (get/post/put/delete): the request interceptor
\* runs. Requests are issued in the order of their numbers.
Client_request(r) ==
    /\ rpc[r] = "idle"
    /\ \A u \in Reqs : u < r => rpc[u] # "idle"
    /\ LET n == requestInterceptor(ClientState, r, cnow)
       IN  /\ Len(n.calls) <= MaxTokenCalls
           /\ SetClientState(n)
    /\ UNCHANGED <<cnow, userSent, notClient>>

\* The API answers a dispatched request (or the connection fails). A 429
\* may come with a Retry-After header.
Client_respond(r, status, retryAfter) ==
    /\ rpc[r] = "inflight"
    /\ status # 429 => retryAfter = NoHeader
    /\ LET response == Response(status, retryAfter)
           s0 == [ClientState EXCEPT !.n401[r] = IF status = 401 THEN @ + 1 ELSE @,
                                     !.received[r] = response]
           n == IF status = 200
                THEN finish(s0, r, "ok")
                ELSE onRejected(s0, r, AxiosError(response), cnow)
       IN  /\ Len(n.calls) <= MaxTokenCalls
           /\ SetClientState(n)
    /\ UNCHANGED <<cnow, userSent, notClient>>

\* getCurrentUser(): axios.get on the userinfo endpoint, outside
\* axiosInstance and its interceptors, with this.tokens.accessToken as it is.
Client_getCurrentUser ==
    /\ Len(userSent) < MaxUserCalls
    /\ userSent' = Append(userSent, [token |-> tokens.accessToken,
                                     fresh |-> ~needsRefresh(tokens, cnow)])
    /\ UNCHANGED <<tokens, tokenRefreshPromise, calls, rpc, rawait, sends, sentToken,
                   sentFresh, received, thrown, retryFlag, retryCount, retryDelays,
                   outcome, n401, refreshes401, firstRefresh, cnow, notClient>>

\* The token endpoint answers a refresh call, or the call fails.
Client_tokenResponse(c, ok) ==
    /\ c \in 1..Len(calls)
    /\ calls[c].state = "inflight"
    /\ LET n == settleTokenCall(ClientState, c, ok, cnow)
       IN  /\ Len(n.calls) <= MaxTokenCalls
           /\ SetClientState(n)
    /\ UNCHANGED <<cnow, userSent, notClient>>

\* The clock advances by one buffer length.
Client_tick ==
    /\ cnow < MaxClientTicks * BufferMs
    /\ cnow' = cnow + BufferMs
    /\ UNCHANGED <<tokens, tokenRefreshPromise, calls, rpc, rawait, sends, sentToken,
                   sentFresh, received, thrown, userSent, retryFlag, retryCount,
                   retryDelays, outcome, n401, refreshes401, firstRefresh, notClient>>

\* The constructor: accessToken '', expiresAt new Date(0), no refresh stored.
ClientInit ==
    /\ tokens = [accessToken |-> 0, expiresAt |-> 0]
    /\ tokenRefreshPromise = 0
    /\ calls = <<>>
    /\ rpc = [r \in Reqs |-> "idle"]
    /\ rawait = [r \in Reqs |-> 0]
    /\ sends = [r \in Reqs |-> 0]
    /\ sentToken = [r \in Reqs |-> <<>>]
    /\ sentFresh = [r \in Reqs |-> <<>>]
    /\ received = [r \in Reqs |-> NoReply]
    /\ thrown = [r \in Reqs |-> NoError]
    /\ userSent = <<>>
    /\ retryFlag = [r \in Reqs |-> FALSE]
    /\ retryCount = [r \in Reqs |-> 0]
    /\ retryDelays = [r \in Reqs |-> <<>>]
    /\ outcome = [r \in Reqs |-> "none"]
    /\ n401 = [r \in Reqs |-> 0]
    /\ refreshes401 = [r \in Reqs |-> 0]
    /\ firstRefresh = [r \in Reqs |-> 0]
    /\ cnow = 0

ClientNext ==
    \/ \E r \in Reqs : Client_request(r)
    \/ \E r \in Reqs, status \in Statuses : Client_respond(r, status, NoHeader)
    \/ \E c \in 1..MaxTokenCalls, ok \in BOOLEAN : Client_tokenResponse(c, ok)
    \/ Client_tick

\* The client with every status and header the error handling distinguishes,
\* within one buffer length of time: the response handler does not read the
\* clock.
ErrorNext ==
    \/ \E r \in Reqs : Client_request(r)
    \/ \E c \in 1..MaxTokenCalls, ok \in BOOLEAN : Client_tokenResponse(c, ok)
    \/ \E r \in Reqs, status \in Statuses \cup MoreStatuses :
           Client_respond(r, status, NoHeader)
    \/ \E r \in Reqs, retryAfter \in RetryAfterHeaders : Client_respond(r, 429, retryAfter)

\* The client with getCurrentUser among its public methods.
UserNext ==
    \/ ClientNext
    \/ Client_getCurrentUser

(***************************************************************************)
(*                    CacheService (persistent variant)                    *)
(***************************************************************************)

\* cacheConfig.maxSize and cacheConfig.ttl (seconds), kept small.
maxSize == 2
defaultTTL == 2
\* The number of set/get/delete/clear calls of a run, and how far the clock
\* may advance.
MaxCacheOps == 3
MaxCacheTicks == 2
\* Logical keys: one more than the cache may hold.
NumKeys == maxSize + 1

\* Milliseconds per second: ttl * 1000 in set, / 1000 in evictLRU.
MsPerSecond == 1000

Keys == 1..NumKeys
\* The ttl argument: one shorter than the default, or 0, which also stands
\* for an omitted one (ttl || defaultTTL).
ShortTTL == defaultTTL - 1
TTLArgs == {0, ShortTTL}

\* What get returns for a miss.
Null == 0
\* The persistence file when it is missing or cannot be parsed.
NoFile == [exists |-> FALSE, entries |-> <<>>]
File(entries) == [exists |-> TRUE, entries |-> entries]

\* generateKey: the SHA-256 hex digest of the key, taken to be free of
\* collisions: distinct keys have distinct digests.
generateKey(k) == <<"sha256", k>>

\* The values a run stores are numbered by the call that stores them.
FreshValue == ops + 1

\* Map.get / Map.has / Map.set / Map.delete on the entries in insertion order
\* (set on a present key replaces the entry where it stands).
mapIndex(c, dk) ==
    IF \E i \in 1..Len(c) : c[i].key = dk
    THEN CHOOSE i \in 1..Len(c) : c[i].key = dk
    ELSE 0
mapHas(c, dk) == mapIndex(c, dk) # 0
mapSet(c, e) ==
    IF mapHas(c, e.key) THEN [c EXCEPT ![mapIndex(c, e.key)] = e] ELSE Append(c, e)
mapDelete(c, dk) == SelectSeq(c, LAMBDA e : e.key # dk)

\* new Date() > entry.expiresAt
isExpiredInclusive(e, now) == now >= e.expiresAt
isExpired(e, now) == now > e.expiresAt

\* The score of evictLRU, hits / ((now - createdAt) / 1000), as the floating
\* point division gives it: NaN for 0/0, Infinity for n/0, else the ratio
\* hits : age, kept as the pair and compared by cross-multiplication.
score(e, now) ==
    LET age == now - e.createdAt
    IN  [nan |-> (age = 0 /\ e.hits = 0), inf |-> (age = 0 /\ e.hits > 0),
         hits |-> e.hits, age |-> age]
Infinity == [nan |-> FALSE, inf |-> TRUE, hits |-> 0, age |-> 0]

\* s < t on these numbers: false whenever one of them is NaN.
scoreLess(s, t) ==
    /\ ~s.nan
    /\ ~t.nan
    /\ IF s.inf THEN FALSE
       ELSE IF t.inf THEN TRUE
       ELSE s.hits * t.age < t.hits * s.age

\* let lruKey: string | null = null
NoKey == <<"null">>

\* if (new Date() > entry.expiresAt) continue;
scanSkipsNone(e, now) == FALSE
scanSkips(e, now) == isExpired(e, now)

\* The scan of evictLRU from entry i on: skips expired entries, keeps the
\* first entry whose score is below the lowest seen so far.
RECURSIVE evictScan(_, _, _, _, _)
evictScan(c, i, now, lruKey, lruHits) ==
    IF i > Len(c) THEN lruKey
    ELSE IF scanSkips(c[i], now)
         THEN evictScan(c, i + 1, now, lruKey, lruHits)
         ELSE IF scoreLess(score(c[i], now), lruHits)
              THEN evictScan(c, i + 1, now, c[i].key, score(c[i], now))
              ELSE evictScan(c, i + 1, now, lruKey, lruHits)

\* evictLRU: the key the scan chose (NoKey when it chose none) and the
\* entries left after deleting it.
evictLRU(c, now) ==
    LET lruKey == evictScan(c, 1, now, NoKey, Infinity)
    IN  [victim |-> lruKey,
         cache |-> IF lruKey # NoKey THEN mapDelete(c, lruKey) ELSE c]

\* set's test before inserting: this.cache.size >= this.maxSize.
atCapacity(c) == Len(c) >= maxSize

\* JSON.stringify of the entries: a Date becomes its ISO string (which keeps
\* the milliseconds), the other fields are written as they are.
toISOString(ms) == <<"ISO-8601", ms>>
toJSON(e) == [e EXCEPT !.expiresAt = toISOString(@), !.createdAt = toISOString(@)]
RECURSIVE stringify(_)
stringify(c) == IF Len(c) = 0 THEN <<>> ELSE <<toJSON(Head(c))>> \o stringify(Tail(c))

\* loadFromDisk: entry.expiresAt = new Date(entry.expiresAt), and the same
\* for createdAt.
newDate(iso) == iso[2]
reviveDates(e) == [e EXCEPT !.expiresAt = newDate(@), !.createdAt = newDate(@)]

\* saveToDisk: the snapshot Array.from(this.cache.values()) is taken at the
\* call and written by fs.writeFile; the write is taken to reach the file
\* before the next event. Nothing is written without persistPath.
saveToDisk(c) == IF persist THEN File(stringify(c)) ELSE disk

\* The entries after set(key, value, ttl) at time now: evictLRU when the map
\* is full, then Map.set of the new entry.
cacheAfterSet(c, k, value, ttl, now) ==
    LET normalizedKey == generateKey(k)
        expiresAt == now + (IF ttl # 0 THEN ttl ELSE defaultTTL) * MsPerSecond
        kept == IF atCapacity(c) THEN evictLRU(c, now).cache ELSE c
        entry == [key |-> normalizedKey, value |-> value,
                  expiresAt |-> expiresAt, createdAt |-> now, hits |-> 0]
    IN  mapSet(kept, entry)

\* Callers name keys in the order of their numbers: a call names a key named
\* before, or the next one.
NamesKey(k) ==
    /\ k <= used + 1
    /\ used' = IF k > used THEN k ELSE used

\* set(key, value, ttl) up to the call of saveToDisk()
setInMemory(k, ttl) ==
    /\ ops < MaxCacheOps
    /\ NamesKey(k)
    /\ LET ev == IF atCapacity(cache)
                 THEN evictLRU(cache, know)
                 ELSE [victim |-> NoKey, cache |-> cache]
       IN  /\ cache' = cacheAfterSet(cache, k, FreshValue, ttl, know)
           /\ lastEvict' = IF atCapacity(cache)
                           THEN <<[before |-> cache, victim |-> ev.victim, at |-> know]>>
                           ELSE <<>>
           /\ lastSet' = <<[key |-> k, at |-> know, ttl |-> ttl, value |-> FreshValue]>>
    /\ justSet' = TRUE
    /\ lastGet' = <<>>
    /\ cleared' = FALSE
    /\ lastSweep' = <<>>
    /\ lastLoad' = <<>>
    /\ ops' = ops + 1
    /\ UNCHANGED <<persist, loaded, know, bootFile>>

\* set(key, value, ttl), its write reaching the file before the next event
Cache_set(k, ttl) ==
    /\ setInMemory(k, ttl)
    /\ disk' = saveToDisk(cache')
    /\ UNCHANGED notCache

\* set(key, value, ttl) with persistence on: saveToDisk() is not awaited, so
\* set returns while the fs.writeFile of its snapshot is still in progress.
Cache_setWriteLater(k, ttl) ==
    /\ persist
    /\ setInMemory(k, ttl)
    /\ writes' = Append(writes, saveToDisk(cache'))
    /\ UNCHANGED <<disk, notCacheWrites>>

\* A write in progress completes (in any order): the file holds its data.
Cache_writeDone(i) ==
    /\ i \in 1..Len(writes)
    /\ disk' = writes[i]
    /\ writes' = SubSeq(writes, 1, i - 1) \o SubSeq(writes, i + 1, Len(writes))
    /\ justSet' = FALSE
    /\ lastGet' = <<>>
    /\ lastEvict' = <<>>
    /\ lastSweep' = <<>>
    /\ lastLoad' = <<>>
    /\ UNCHANGED <<cache, persist, loaded, know, ops, used, bootFile, lastSet, cleared,
                   notCacheWrites>>

\* get(key): absent -> null; expired -> delete, null; else hits++, value.
getResult(c, k, now) ==
    LET normalizedKey == generateKey(k)
        i == mapIndex(c, normalizedKey)
    IN  IF i = 0 THEN [ret |-> Null, cache |-> c]
        ELSE IF isExpired(c[i], now)
             THEN [ret |-> Null, cache |-> mapDelete(c, normalizedKey)]
             ELSE [ret |-> c[i].value, cache |-> [c EXCEPT ![i].hits = @ + 1]]

Cache_get(k) ==
    /\ ops < MaxCacheOps
    /\ NamesKey(k)
    /\ LET r == getResult(cache, k, know)
       IN  /\ cache' = r.cache
           /\ lastGet' = <<[key |-> k, ret |-> r.ret, afterSet |-> (justSet /\ lastSet[1].key = k)]>>
    /\ justSet' = FALSE
    /\ lastEvict' = <<>>
    /\ ops' = ops + 1
    /\ lastSweep' = <<>>
    /\ lastLoad' = <<>>
    /\ UNCHANGED <<persist, disk, loaded, know, bootFile, lastSet, cleared, notCache>>

\* delete(key): saves only when an entry was deleted.
Cache_delete(k) ==
    /\ ops < MaxCacheOps
    /\ NamesKey(k)
    /\ cache' = mapDelete(cache, generateKey(k))
    /\ disk' = IF mapHas(cache, generateKey(k)) THEN saveToDisk(cache') ELSE disk
    /\ justSet' = FALSE
    /\ lastGet' = <<>>
    /\ lastEvict' = <<>>
    /\ ops' = ops + 1
    /\ lastSweep' = <<>>
    /\ lastLoad' = <<>>
    /\ UNCHANGED <<persist, loaded, know, bootFile, lastSet, cleared, notCache>>

\* clear(): empties the map and unlinks the file (here at once).
Cache_clear ==
    /\ ops < MaxCacheOps
    /\ cache' = <<>>
    /\ disk' = IF persist THEN NoFile ELSE disk
    /\ justSet' = FALSE
    /\ lastGet' = <<>>
    /\ lastEvict' = <<>>
    /\ ops' = ops + 1
    /\ cleared' = TRUE
    /\ lastSweep' = <<>>
    /\ lastLoad' = <<>>
    /\ UNCHANGED <<persist, loaded, know, used, bootFile, lastSet, notCache>>

\* if (now > entry.expiresAt) keysToDelete.push(key)
cleanupDeletesAtExpiry(e, now) == now >= e.expiresAt
cleanupDeletes(e, now) == isExpired(e, now)

\* cleanup(), run by the interval timer: deletes the entries with
\* now > expiresAt, and saves when it deleted any.
Cache_cleanup ==
    /\ persist
    /\ cache' = SelectSeq(cache, LAMBDA e : ~cleanupDeletes(e, know))
    /\ disk' = IF cache' # cache THEN saveToDisk(cache') ELSE disk
    /\ justSet' = FALSE
    /\ lastGet' = <<>>
    /\ lastEvict' = <<>>
    /\ lastSweep' = <<[before |-> cache, at |-> know]>>
    /\ lastLoad' = <<>>
    /\ UNCHANGED <<persist, loaded, know, ops, used, bootFile, lastSet, cleared, notCache>>

\* if (now > entry.expiresAt) continue
loadSkipsAtExpiry(e, now) == now >= e.expiresAt
loadSkips(e, now) == isExpired(e, now)

\* The loop of loadFromDisk over the parsed entries: each entry that is not
\* expired is put into the map under its stored key.
RECURSIVE loadEntries(_, _, _)
loadEntries(c, entries, now) ==
    IF Len(entries) = 0 THEN c
    ELSE LET entry == reviveDates(Head(entries))
         IN  loadEntries(IF loadSkips(entry, now) THEN c ELSE mapSet(c, entry),
                         Tail(entries), now)

\* What the fs.readFile started by the constructor may deliver when writes
\* have been started since: the file as it was at construction, the file as
\* it is now, or a truncated file that does not parse.
readFile == {bootFile, disk, NoFile}

\* loadFromDisk() after its await: the file has been read (a missing or
\* corrupt file is caught and ignored).
Cache_loadFromDisk ==
    /\ persist
    /\ ~loaded
    /\ loaded' = TRUE
    /\ \E data \in readFile :
           /\ cache' = IF ~data.exists THEN cache ELSE loadEntries(cache, data.entries, know)
           /\ lastLoad' = <<[data |-> data, before |-> cache, at |-> know]>>
    /\ justSet' = FALSE
    /\ lastGet' = <<>>
    /\ lastEvict' = <<>>
    /\ lastSweep' = <<>>
    /\ UNCHANGED <<persist, disk, know, ops, used, bootFile, lastSet, cleared, notCache>>

\* The clock advances by a second.
Cache_tick ==
    /\ know < MaxCacheTicks * MsPerSecond
    /\ know' = know + MsPerSecond
    /\ justSet' = FALSE
    /\ lastGet' = <<>>
    /\ lastEvict' = <<>>
    /\ lastSweep' = <<>>
    /\ lastLoad' = <<>>
    /\ UNCHANGED <<cache, persist, disk, loaded, ops, used, bootFile, lastSet, cleared, notCache>>

\* A file left by an earlier run: one entry that has expired since and two,
\* hit once and twice, that expire at the last instant the clock reaches.
EarlierEntries ==
    << [key |-> generateKey(1), value |-> Null - 1,
        expiresAt |-> 0 - MsPerSecond, createdAt |-> 0 - 2 * MsPerSecond, hits |-> 0],
       [key |-> generateKey(2), value |-> Null - 2,
        expiresAt |-> MaxCacheTicks * MsPerSecond, createdAt |-> 0 - MsPerSecond,
        hits |-> 1],
       [key |-> generateKey(3), value |-> Null - 3,
        expiresAt |-> MaxCacheTicks * MsPerSecond, createdAt |-> 0 - MsPerSecond,
        hits |-> 2] >>
EarlierFile == stringify(EarlierEntries)

\* The constructor: an empty map; with cacheConfig.enabled the load from
\* disk is started and the sweep timer set.
CacheInit ==
    /\ cache = <<>>
    /\ persist \in BOOLEAN
    /\ disk \in (IF persist THEN {NoFile, File(EarlierFile)} ELSE {NoFile})
    /\ loaded = FALSE
    /\ know = 0
    /\ ops = 0
    /\ used = 0
    /\ bootFile = disk
    /\ lastSet = <<>>
    /\ lastGet = <<>>
    /\ justSet = FALSE
    /\ lastEvict = <<>>
    /\ cleared = FALSE
    /\ lastSweep = <<>>
    /\ lastLoad = <<>>
    /\ writes = <<>>

CacheNext ==
    \/ \E k \in Keys, ttl \in TTLArgs : Cache_set(k, ttl)
    \/ \E k \in Keys : Cache_get(k)
    \/ \E k \in Keys : Cache_delete(k)
    \/ Cache_clear
    \/ Cache_cleanup
    \/ Cache_loadFromDisk
    \/ Cache_tick

\* set accepts any number as ttl: a negative one too.
NegativeTTL == 0 - ShortTTL

TtlNext ==
    \/ CacheNext
    \/ \E k \in Keys : Cache_set(k, NegativeTTL)

\* The cache on a file system where a write may take longer than the call
\* that started it.
WritesNext ==
    \/ CacheNext
    \/ \E k \in Keys, ttl \in TTLArgs : Cache_setWriteLater(k, ttl)
    \/ \E i \in 1..MaxCacheOps : Cache_writeDone(i)

(***************************************************************************)
(*              QueueService.addWithRetry (p-queue variant)                *)
(***************************************************************************)

\* The largest options.retries a call passes.
MaxRetries == 6
\* options.retryDelay as it defaults, and the timeout the p-queue is built
\* with (apiConfig.timeout as it defaults, throwOnTimeout: true).
defaultRetryDelay == 1000
timeoutMs == 30000

\* const delay = retryDelay * Math.pow(2, attempt - 1)
backoffDelay(attempt) == defaultRetryDelay * Pow2(attempt - 1)

\* if (attempt < retries): onRetry is called and the backoff waited.
retriesLeft(attempt, retries) == attempt < retries

\* throw lastError: the error of the latest failed attempt, or null as
\* lastError was initialised when no attempt was made.
lastError(failed) == IF failed = 0 THEN "null" ELSE "lastError"

\* The caller's promise settles once: a later settlement changes nothing.
awSettle(result) == IF awOutcome = "none" THEN result ELSE awOutcome

\* addWithRetry(task, {retries, onRetry}): this.add(async () => {...}) hands
\* one function to the p-queue.
AddWithRetry_call(n, k) ==
    /\ awPhase = "idle"
    /\ awPhase' = "queued"
    /\ awRetries' = n
    /\ awFails' = k
    /\ UNCHANGED <<awFailed, awAttempt, awElapsed, awInSlot, awAdmissions, awOnRetry,
                   awDelays, awOutside, awOutcome, notRetry>>

\* The p-queue starts the function: let lastError = null; attempt = 1, and
\* its timeout starts to run.
AddWithRetry_admit ==
    /\ awPhase = "queued"
    /\ awPhase' = IF 1 <= awRetries THEN "attempt" ELSE "done"
    /\ awAttempt' = 1
    /\ awElapsed' = 0
    /\ awInSlot' = (1 <= awRetries)
    /\ awAdmissions' = awAdmissions + 1
    /\ awOutcome' = IF 1 <= awRetries THEN awOutcome ELSE awSettle(lastError(awFailed))
    /\ UNCHANGED <<awRetries, awFails, awFailed, awOnRetry, awDelays, awOutside, notRetry>>

\* One pass of the for loop up to its next await: task() settles (the task
\* answers at once); on success the function returns, on failure onRetry is
\* called and the backoff timer set when attempts are left, else the loop
\* ends and lastError is thrown.
AddWithRetry_attempt ==
    /\ awPhase = "attempt"
    /\ awOutside' = IF awInSlot THEN awOutside ELSE awOutside + 1
    /\ IF awFailed >= awFails
       THEN /\ awPhase' = "done"
            /\ awOutcome' = awSettle("value")
            /\ awInSlot' = FALSE
            /\ UNCHANGED <<awFailed, awOnRetry>>
       ELSE /\ awFailed' = awFailed + 1
            /\ IF retriesLeft(awAttempt, awRetries)
               THEN /\ awOnRetry' = Append(awOnRetry, awAttempt)
                    /\ awPhase' = "backoff"
                    /\ UNCHANGED <<awOutcome, awInSlot>>
               ELSE /\ awPhase' = "done"
                    /\ awOutcome' = awSettle(lastError(awFailed'))
                    /\ awInSlot' = FALSE
                    /\ UNCHANGED awOnRetry
    /\ UNCHANGED <<awRetries, awFails, awAttempt, awElapsed, awAdmissions, awDelays, notRetry>>

\* The backoff timer fires: attempt++. It fires before the p-queue's timeout
\* only when it is due no later.
AddWithRetry_backoffDone ==
    /\ awPhase = "backoff"
    /\ awInSlot => awElapsed + backoffDelay(awAttempt) <= timeoutMs
    /\ awElapsed' = awElapsed + backoffDelay(awAttempt)
    /\ awDelays' = Append(awDelays, backoffDelay(awAttempt))
    /\ awAttempt' = awAttempt + 1
    /\ awPhase' = "attempt"
    /\ UNCHANGED <<awRetries, awFails, awFailed, awInSlot, awAdmissions, awOnRetry, awOutside,
                   awOutcome, notRetry>>

\* The p-queue's timeout fires while the function is still waiting: the
\* promise add() returned rejects with TimeoutError and the slot is given
\* up; the function itself goes on.
AddWithRetry_timeout ==
    /\ awPhase = "backoff"
    /\ awInSlot
    /\ awElapsed + backoffDelay(awAttempt) >= timeoutMs
    /\ awInSlot' = FALSE
    /\ awOutcome' = awSettle("TimeoutError")
    /\ UNCHANGED <<awPhase, awRetries, awFails, awFailed, awAttempt, awElapsed, awAdmissions,
                   awOnRetry, awDelays, awOutside, notRetry>>

RetryInit ==
    /\ awPhase = "idle"
    /\ awRetries = 0
    /\ awFails = 0
    /\ awFailed = 0
    /\ awAttempt = 0
    /\ awElapsed = 0
    /\ awInSlot = FALSE
    /\ awAdmissions = 0
    /\ awOnRetry = <<>>
    /\ awDelays = <<>>
    /\ awOutside = 0
    /\ awOutcome = "none"

RetryNext ==
    \/ \E n \in 1..MaxRetries, k \in 0..MaxRetries : AddWithRetry_call(n, k)
    \/ AddWithRetry_admit
    \/ AddWithRetry_attempt
    \/ AddWithRetry_backoffDone
    \/ AddWithRetry_timeout

\* Callers that also pass retries: 0.
RetryAnyNext ==
    \/ RetryNext
    \/ \E k \in 0..MaxRetries : AddWithRetry_call(0, k)

(***************************************************************************)
(*       QueueService (p-queue variant): add, pause, clear, shutdown       *)
(***************************************************************************)

\* Tasks a run may submit to the PQueue, and how far its clock may advance.
NumPTasks == 3
MaxPQTicks == 4
\* intervalCap: this.rateLimitPerMinute, kept small. The PQueue's concurrency
\* (5 in the constructor) is kept as small as that of the simple variant.
intervalCap == 2
PTasks == 1..NumPTasks
\* The clock advances in steps of the timeout the PQueue is built with; its
\* interval (60000) is two of them.
PQTickMs == timeoutMs

\* The PQueue's state as one record.
PQState ==
    [queue |-> pqQueue, task |-> pqTask, future |-> pqFuture, start |-> pqStart,
     paused |-> pqPaused, intervalCount |-> pqIntervalCount, shutdown |-> pqShutdown,
     late |-> pqLate]

SetPQState(st) ==
    /\ pqQueue' = st.queue
    /\ pqTask' = st.task
    /\ pqFuture' = st.future
    /\ pqStart' = st.start
    /\ pqPaused' = st.paused
    /\ pqIntervalCount' = st.intervalCount
    /\ pqShutdown' = st.shutdown
    /\ pqLate' = st.late

\* PQueue.pending: the functions it counts as running.
pqPending(st) == Cardinality({t \in PTasks : st.task[t] = "running"})

\* The PQueue starts the next function when it is not paused, fewer than
\* `concurrency` are running and fewer than intervalCap were started in the
\* interval.
pqCanStart(st) ==
    /\ ~st.paused
    /\ pqPending(st) < concurrency
    /\ st.intervalCount < intervalCap

\* The PQueue starts waiting functions as long as it can.
RECURSIVE pqStartNext(_, _)
pqStartNext(st, now) ==
    IF Len(st.queue) = 0 \/ ~pqCanStart(st) THEN st
    ELSE LET t == Head(st.queue)
         IN  pqStartNext([st EXCEPT !.queue = Tail(@),
                                    !.task[t] = "running",
                                    !.start[t] = now,
                                    !.intervalCount = @ + 1,
                                    !.late = IF st.shutdown # "none" THEN @ \cup {t} ELSE @],
                         now)

\* add(task): this.queue.add(task, { priority }), with the default priority.
PQ_add(t) ==
    /\ pqTask[t] = "new"
    /\ \A u \in PTasks : u < t => pqTask[u] # "new"
    /\ SetPQState(pqStartNext([PQState EXCEPT !.queue = Append(@, t),
                                              !.task[t] = "waiting"], pqNow))
    /\ UNCHANGED <<pqNow, notPQueue>>

\* The function of a task returns or throws. While the PQueue counts it as
\* running, the promise add() returned settles with that outcome, and the
\* next function is started; after the PQueue's timeout nothing is left to
\* settle.
PQ_settle(t, ok) ==
    /\ pqTask[t] \in {"running", "detached"}
    /\ SetPQState(IF pqTask[t] = "running"
                  THEN pqStartNext([PQState EXCEPT
                                       !.task[t] = IF ok THEN "returned" ELSE "threw",
                                       !.future[t] = IF ok THEN "value" ELSE "error"],
                                   pqNow)
                  ELSE [PQState EXCEPT !.task[t] = IF ok THEN "returned" ELSE "threw"])
    /\ UNCHANGED <<pqNow, notPQueue>>

\* timeout: apiConfig.timeout with throwOnTimeout: true. When a function has
\* run that long the promise add() returned rejects with TimeoutError and
\* the PQueue goes on to the next function; the function itself runs on.
PQ_timeout(t) ==
    /\ pqTask[t] = "running"
    /\ pqNow - pqStart[t] >= timeoutMs
    /\ SetPQState(pqStartNext([PQState EXCEPT !.task[t] = "detached",
                                              !.future[t] = "TimeoutError"], pqNow))
    /\ UNCHANGED <<pqNow, notPQueue>>

\* pause(): this.queue.pause().
PQ_pause ==
    /\ ~pqPaused
    /\ pqPaused' = TRUE
    /\ UNCHANGED <<pqQueue, pqTask, pqFuture, pqStart, pqIntervalCount, pqNow, pqShutdown,
                   pqLate, notPQueue>>

\* resume(): this.queue.start(). No caller resumes a queue that is being
\* shut down.
PQ_resume ==
    /\ pqPaused
    /\ pqShutdown = "none"
    /\ SetPQState(pqStartNext([PQState EXCEPT !.paused = FALSE], pqNow))
    /\ UNCHANGED <<pqNow, notPQueue>>

\* clear(): this.queue.clear().
PQ_clear ==
    /\ Len(pqQueue) > 0
    /\ pqQueue' = <<>>
    /\ pqTask' = [t \in PTasks |-> IF pqTask[t] = "waiting" THEN "discarded" ELSE pqTask[t]]
    /\ UNCHANGED <<pqFuture, pqStart, pqPaused, pqIntervalCount, pqNow, pqShutdown, pqLate,
                   notPQueue>>

\* PQueue.onIdle() resolves when nothing waits and nothing is counted as
\* running.
pqIdle(st) == Len(st.queue) = 0 /\ pqPending(st) = 0

\* shutdown(): this.pause(); if (this.pending() > 0) await this.onIdle().
PQ_shutdown ==
    /\ pqShutdown = "none"
    /\ LET st == [PQState EXCEPT !.paused = TRUE]
       IN  SetPQState([st EXCEPT !.shutdown = IF pqPending(st) > 0
                                              THEN "waiting" ELSE "returned"])
    /\ UNCHANGED <<pqNow, notPQueue>>

\* The await this.onIdle() of shutdown() resolves.
PQ_onIdle ==
    /\ pqShutdown = "waiting"
    /\ pqIdle(PQState)
    /\ pqShutdown' = "returned"
    /\ UNCHANGED <<pqQueue, pqTask, pqFuture, pqStart, pqPaused, pqIntervalCount, pqNow,
                   pqLate, notPQueue>>

\* The clock advances, unless a timeout is due first; at the end of an
\* interval the count of started functions is reset and waiting functions
\* are started.
PQ_tick ==
    /\ pqNow < MaxPQTicks * PQTickMs
    /\ \A t \in PTasks : pqTask[t] = "running" => pqNow - pqStart[t] < timeoutMs
    /\ pqNow' = pqNow + PQTickMs
    /\ SetPQState(IF pqNow' % WindowMs = 0
                  THEN pqStartNext([PQState EXCEPT !.intervalCount = 0], pqNow')
                  ELSE PQState)
    /\ UNCHANGED notPQueue

PQ_settleAny == \E t \in PTasks, ok \in BOOLEAN : PQ_settle(t, ok)
PQ_timeoutAny == \E t \in PTasks : PQ_timeout(t)

PQInit ==
    /\ pqQueue = <<>>
    /\ pqTask = [t \in PTasks |-> "new"]
    /\ pqFuture = [t \in PTasks |-> "pending"]
    /\ pqStart = [t \in PTasks |-> 0]
    /\ pqPaused = FALSE
    /\ pqIntervalCount = 0
    /\ pqNow = 0
    /\ pqShutdown = "none"
    /\ pqLate = {}

PQNext ==
    \/ \E t \in PTasks : PQ_add(t)
    \/ PQ_settleAny
    \/ PQ_timeoutAny
    \/ PQ_pause
    \/ PQ_resume
    \/ PQ_clear
    \/ PQ_shutdown
    \/ PQ_onIdle
    \/ PQ_tick

(***************************************************************************)
(*       QueueService.createRateLimitedExecutor (p-queue variant)          *)
(***************************************************************************)

\* The tasks handed to one executor, and how far the clock may advance.
NumExTasks == 3
MaxExTicks == 7
\* createRateLimitedExecutor(windowMs, maxRequests): the arguments, a window
\* shorter than the PQueue's timeout (no function waits that long) and than
\* its interval.
maxRequests == 1
ExTickMs == WindowMs \div 6
windowMs == 2 * ExTickMs
ExTasks == 1..NumExTasks

ExecutorState ==
    [requestTimes |-> requestTimes, queue |-> exQueue, task |-> exTask, wake |-> exWake,
     intervalCount |-> exIntervalCount, starts |-> exStarts]

SetExecutorState(st) ==
    /\ requestTimes' = st.requestTimes
    /\ exQueue' = st.queue
    /\ exTask' = st.task
    /\ exWake' = st.wake
    /\ exIntervalCount' = st.intervalCount
    /\ exStarts' = st.starts

\* while (requestTimes.length > 0 && requestTimes[0] < now - windowMs)
\*   requestTimes.shift()
RECURSIVE shiftOld(_, _)
shiftOld(times, now) ==
    IF Len(times) > 0 /\ times[1] < now - windowMs
    THEN shiftOld(Tail(times), now)
    ELSE times

\* requestTimes.push(Date.now()); return task()
recordAndRun(st, t, now) ==
    [st EXCEPT !.requestTimes = Append(@, now),
               !.task[t] = "running",
               !.starts = Append(@, now)]

\* if (waitTime > 0) await new Promise(setTimeout(resolve, waitTime))
waits(waitTime) == waitTime > 0

\* The function the executor hands to add(), up to its first await: the
\* old times are shifted out; when maxRequests times remain it sleeps until
\* the oldest is windowMs old, else it records the time and calls task().
executorBody(st, t, now) ==
    LET times == shiftOld(st.requestTimes, now)
        s1 == [st EXCEPT !.requestTimes = times]
    IN  IF Len(times) >= maxRequests
        THEN LET oldestRequest == times[1]
                 waitTime == windowMs - (now - oldestRequest)
             IN  IF waits(waitTime)
                 THEN [s1 EXCEPT !.task[t] = "waiting", !.wake[t] = now + waitTime]
                 ELSE recordAndRun(s1, t, now)
        ELSE recordAndRun(s1, t, now)

\* The functions the PQueue counts as running: sleeping ones too.
exPending(st) == Cardinality({t \in ExTasks : st.task[t] \in {"waiting", "running"}})

\* The PQueue starts waiting functions while fewer than `concurrency` run
\* and fewer than intervalCap were started in the interval.
RECURSIVE exStartNext(_, _)
exStartNext(st, now) ==
    IF Len(st.queue) = 0 \/ exPending(st) >= concurrency
                         \/ st.intervalCount >= intervalCap
    THEN st
    ELSE LET t == Head(st.queue)
         IN  exStartNext(executorBody([st EXCEPT !.queue = Tail(@),
                                                 !.intervalCount = @ + 1], t, now),
                         now)

\* executor(task): this.add(async () => {...}). Tasks are handed over in the
\* order of their numbers.
Executor_call(t) ==
    /\ exTask[t] = "new"
    /\ \A u \in ExTasks : u < t => exTask[u] # "new"
    /\ SetExecutorState(exStartNext([ExecutorState EXCEPT !.queue = Append(@, t),
                                                          !.task[t] = "queued"], exNow))
    /\ UNCHANGED <<exNow, notExecutor>>

\* The sleep of a function ends: it records the time and calls task(),
\* without looking at requestTimes again.
Executor_wake(t) ==
    /\ exTask[t] = "waiting"
    /\ exNow >= exWake[t]
    /\ SetExecutorState(recordAndRun(ExecutorState, t, exNow))
    /\ UNCHANGED <<exNow, notExecutor>>

\* task() settles: the function returns and the PQueue starts the next.
Executor_settle(t) ==
    /\ exTask[t] = "running"
    /\ SetExecutorState(exStartNext([ExecutorState EXCEPT !.task[t] = "done"], exNow))
    /\ UNCHANGED <<exNow, notExecutor>>

\* The clock advances, unless a sleep is due to end first; at the end of an
\* interval of the PQueue its count is reset and waiting functions start.
Executor_tick ==
    /\ exNow < MaxExTicks * ExTickMs
    /\ \A t \in ExTasks : exTask[t] = "waiting" => exNow < exWake[t]
    /\ exNow' = exNow + ExTickMs
    /\ SetExecutorState(IF exNow' % WindowMs = 0
                        THEN exStartNext([ExecutorState EXCEPT !.intervalCount = 0], exNow')
                        ELSE ExecutorState)
    /\ UNCHANGED notExecutor

ExecutorInit ==
    /\ requestTimes = <<>>
    /\ exQueue = <<>>
    /\ exTask = [t \in ExTasks |-> "new"]
    /\ exWake = [t \in ExTasks |-> 0]
    /\ exIntervalCount = 0
    /\ exNow = 0
    /\ exStarts = <<>>

ExecutorNext ==
    \/ \E t \in ExTasks : Executor_call(t)
    \/ \E t \in ExTasks : Executor_wake(t)
    \/ \E t \in ExTasks : Executor_settle(t)
    \/ Executor_tick

(***************************************************************************)
(*            CacheService, in-memory variant (services/cache.ts)          *)
(***************************************************************************)

\* The singleton is new CacheService(100, 300): maxSize is kept small, the
\* default ttl (seconds) is the singleton's.
memMaxSize == 2
memDefaultTTL == 300
\* setInterval(() => this.cleanup(), 60000)
CleanupMs == 60000
\* The number of set/get/delete/clear calls of a run, and how far the clock
\* may advance; the clock advances by half the cleanup interval.
MaxMemOps == 4
MaxMemTicks == 4
MemTickMs == CleanupMs \div 2
\* The ttl argument: half a cleanup interval, or 0, which also stands for an
\* omitted one (ttl || this.defaultTTL).
MemShortTTL == MemTickMs \div MsPerSecond
MemTTLArgs == {0, MemShortTTL}

\* Logical keys, as their UTF-16 code units: "Aa", "BB" and "AB".
MemKeys == { <<65, 97>>, <<66, 66>>, <<65, 66>> }

\* hash & hash: ToInt32 of a number less than 2^32 away from the 32-bit range.
MaxInt32 == 2147483647
Int32(x) ==
    IF x > MaxInt32 THEN x - MaxInt32 - MaxInt32 - 2
    ELSE IF x < 0 - MaxInt32 - 1 THEN x + MaxInt32 + MaxInt32 + 2
    ELSE x

\* The loop of generateKey from index i on:
\* hash = (hash << 5) - hash + char; hash = hash & hash.
RECURSIVE hashFrom(_, _, _)
hashFrom(data, i, hash) ==
    IF i > Len(data) THEN hash
    ELSE hashFrom(data, i + 1, Int32(Int32(hash * 32) - hash + data[i]))

\* Number.prototype.toString(36): the digits, most significant first, after
\* a minus sign for a negative number.
RECURSIVE digits36(_)
digits36(n) == IF n < 36 THEN <<n>> ELSE Append(digits36(n \div 36), n % 36)
toString36(h) == IF h < 0 THEN <<"-">> \o digits36(0 - h) ELSE digits36(h)

Mem_generateKey(input) == toString36(hashFrom(input, 1, 0))

\* entry.expiresAt < new Date()
memExpired(e, now) == e.expiresAt < now

\* The value a set stores is numbered by the call that stores it.
MemFreshValue == memOps + 1

\* get(key): a miss, an expired entry (deleted), or a hit (counted).
Mem_get(k) ==
    /\ memOps < MaxMemOps
    /\ LET cacheKey == Mem_generateKey(k)
           i == mapIndex(memCache, cacheKey)
       IN  IF i = 0
           THEN /\ memCache' = memCache
                /\ memLastGet' = [key |-> k, ret |-> Null]
           ELSE IF memExpired(memCache[i], memNow)
           THEN /\ memCache' = mapDelete(memCache, cacheKey)
                /\ memLastGet' = [key |-> k, ret |-> Null]
           ELSE /\ memCache' = [memCache EXCEPT ![i].hits = @ + 1]
                /\ memLastGet' = [key |-> k, ret |-> memCache[i].value]
    /\ memOps' = memOps + 1
    /\ UNCHANGED <<memNow, memWritten, notMem>>

\* set(key, value, ttl): at the size limit a new key first removes the key
\* inserted first; then the entry is stored under the digest.
Mem_set(k, ttl) ==
    /\ memOps < MaxMemOps
    /\ LET cacheKey == Mem_generateKey(k)
           ttlSeconds == IF ttl # 0 THEN ttl ELSE memDefaultTTL
           room == IF Len(memCache) >= memMaxSize /\ ~mapHas(memCache, cacheKey)
                   THEN mapDelete(memCache, memCache[1].key)
                   ELSE memCache
           entry == [key |-> cacheKey, value |-> MemFreshValue,
                     expiresAt |-> memNow + ttlSeconds * MsPerSecond,
                     createdAt |-> memNow, hits |-> 0]
       IN  memCache' = mapSet(room, entry)
    /\ memWritten' = [memWritten EXCEPT ![k] = MemFreshValue]
    /\ memLastGet' = <<>>
    /\ memOps' = memOps + 1
    /\ UNCHANGED <<memNow, notMem>>

\* delete(key)
Mem_delete(k) ==
    /\ memOps < MaxMemOps
    /\ memCache' = mapDelete(memCache, Mem_generateKey(k))
    /\ memWritten' = [memWritten EXCEPT ![k] = Null]
    /\ memLastGet' = <<>>
    /\ memOps' = memOps + 1
    /\ UNCHANGED <<memNow, notMem>>

\* clear()
Mem_clear ==
    /\ memOps < MaxMemOps
    /\ memCache' = <<>>
    /\ memWritten' = [k \in MemKeys |-> Null]
    /\ memLastGet' = <<>>
    /\ memOps' = memOps + 1
    /\ UNCHANGED <<memNow, notMem>>

\* cleanup(): every entry with expiresAt < now is deleted.
Mem_cleanup(c, now) == SelectSeq(c, LAMBDA e : ~memExpired(e, now))

\* Time passes; when the cleanup interval is over its callback runs.
Mem_tick ==
    /\ memNow < MaxMemTicks * MemTickMs
    /\ memNow' = memNow + MemTickMs
    /\ memCache' = IF memNow' % CleanupMs = 0 THEN Mem_cleanup(memCache, memNow')
                   ELSE memCache
    /\ memLastGet' = <<>>
    /\ UNCHANGED <<memOps, memWritten, notMem>>

\* The constructor: an empty map.
MemInit ==
    /\ memCache = <<>>
    /\ memNow = 0
    /\ memOps = 0
    /\ memWritten = [k \in MemKeys |-> Null]
    /\ memLastGet = <<>>

MemNext ==
    \/ \E k \in MemKeys, ttl \in MemTTLArgs : Mem_set(k, ttl)
    \/ \E k \in MemKeys : Mem_get(k)
    \/ \E k \in MemKeys : Mem_delete(k)
    \/ Mem_clear
    \/ Mem_tick

(***************************************************************************)
(*           InvoiceService, and the calls the server makes itself         *)
(***************************************************************************)

\* Filters passed to getInvoices, invoice ids, business operations of a run,
\* and how far the clock may advance.
NumFilters == 2
NumInvoices == 1
MaxInvoiceOps == 4
MaxInvoiceTicks == 3

\* cacheService.set(cacheKey, response, 300) and set(cacheKey, invoice, 600).
listTTL == 300
invoiceTTL == 600
\* The clock advances by the shorter of them.
InvoiceTickMs == listTTL * MsPerSecond

Filters == 1..NumFilters
Invoices == 1..NumInvoices
\* Every other filter names a customer (validated.customerName).
hasCustomerName(f) == f % 2 = 1

\* The cache keys: `invoices:${JSON.stringify(validated)}`, the literal
\* 'invoices:*' (no filter serializes to '*': written as filter 0), and
\* `invoice:${invoiceId}`.
listKey(f) == <<"invoices", f>>
wildcardKey == <<"invoices", 0>>
invoiceKey(i) == <<"invoice", i>>

\* if (cached): the test on what cacheService.get returned.
neverTruthy(v) == FALSE
truthy(v) == v # Null

\* What one operation did: its name, the cache key it read, what it
\* returned, the tasks it passed to queueService.add, its calls of the API
\* client, those of them made outside a queue task, and the cache and clock
\* it found.
OpRecord(op, key, ret, admissions, apiCalls, unqueued) ==
    <<[op |-> op, key |-> key, ret |-> ret, admissions |-> admissions,
       apiCalls |-> apiCalls, unqueued |-> unqueued, before |-> cache, at |-> know]>>

\* A read through the cache: cacheService.get; on a hit the cached value is
\* returned; on a miss `lookups` direct calls of this.api are made first
\* (findCustomerByName), then one task is passed to queueService.add, and
\* its result is cached with ttl.
cachedRead(c, k, ttl, lookups, now) ==
    LET r == getResult(c, k, now)
    IN  IF truthy(r.ret)
        THEN [cache |-> r.cache, ret |-> r.ret, admissions |-> 0, apiCalls |-> 0,
              unqueued |-> 0]
        ELSE [cache |-> cacheAfterSet(r.cache, k, serverVersion, ttl, now),
              ret |-> serverVersion, admissions |-> 1, apiCalls |-> 1 + lookups,
              unqueued |-> lookups]

\* getInvoices(params)
Invoice_getInvoices(f) ==
    /\ iops < MaxInvoiceOps
    /\ LET r == cachedRead(cache, listKey(f), listTTL,
                           IF hasCustomerName(f) THEN 1 ELSE 0, know)
       IN  /\ cache' = r.cache
           /\ lastOp' = OpRecord("getInvoices", listKey(f), r.ret, r.admissions,
                                 r.apiCalls, r.unqueued)
    /\ iops' = iops + 1
    /\ UNCHANGED <<serverVersion, know, notInvoice>>

\* getInvoiceById(invoiceId)
Invoice_getInvoiceById(i) ==
    /\ iops < MaxInvoiceOps
    /\ LET r == cachedRead(cache, invoiceKey(i), invoiceTTL, 0, know)
       IN  /\ cache' = r.cache
           /\ lastOp' = OpRecord("getInvoiceById", invoiceKey(i), r.ret, r.admissions,
                                 r.apiCalls, r.unqueued)
    /\ iops' = iops + 1
    /\ UNCHANGED <<serverVersion, know, notInvoice>>

\* createInvoice(params), the customer found and the post successful:
\* findCustomerByName calls this.api.query itself, the post goes through
\* the queue, then cacheService.delete('invoices:*').
Invoice_createInvoice ==
    /\ iops < MaxInvoiceOps
    /\ cache' = mapDelete(cache, generateKey(wildcardKey))
    /\ serverVersion' = serverVersion + 1
    /\ lastOp' = OpRecord("createInvoice", wildcardKey, serverVersion + 1, 1, 2, 1)
    /\ iops' = iops + 1
    /\ UNCHANGED <<know, notInvoice>>

\* updateInvoice(invoiceId, updates), successful: getInvoiceById, the post
\* through the queue, then delete(`invoice:${invoiceId}`) and
\* delete('invoices:*').
Invoice_updateInvoice(i) ==
    /\ iops < MaxInvoiceOps
    /\ LET r == cachedRead(cache, invoiceKey(i), invoiceTTL, 0, know)
       IN  /\ cache' = mapDelete(mapDelete(r.cache, generateKey(invoiceKey(i))),
                                 generateKey(wildcardKey))
           /\ lastOp' = OpRecord("updateInvoice", invoiceKey(i), serverVersion + 1,
                                 r.admissions + 1, r.apiCalls + 1, r.unqueued)
    /\ serverVersion' = serverVersion + 1
    /\ iops' = iops + 1
    /\ UNCHANGED <<know, notInvoice>>

\* deleteInvoice(invoiceId), successful: the post through the queue, then
\* the same two deletes.
Invoice_deleteInvoice(i) ==
    /\ iops < MaxInvoiceOps
    /\ cache' = mapDelete(mapDelete(cache, generateKey(invoiceKey(i))),
                          generateKey(wildcardKey))
    /\ serverVersion' = serverVersion + 1
    /\ lastOp' = OpRecord("deleteInvoice", invoiceKey(i), Null, 1, 1, 0)
    /\ iops' = iops + 1
    /\ UNCHANGED <<know, notInvoice>>

\* handleToolCall, case 'get_api_status': await this.api.getApiLimits().
Server_getApiStatus ==
    /\ iops < MaxInvoiceOps
    /\ lastOp' = OpRecord("get_api_status", wildcardKey, Null, 0, 1, 1)
    /\ iops' = iops + 1
    /\ UNCHANGED <<cache, serverVersion, know, notInvoice>>

\* handleResourceRead, case 'qbo://company/info': this.api.getCompanyInfo().
Server_companyInfo ==
    /\ iops < MaxInvoiceOps
    /\ lastOp' = OpRecord("qbo://company/info", wildcardKey, Null, 0, 1, 1)
    /\ iops' = iops + 1
    /\ UNCHANGED <<cache, serverVersion, know, notInvoice>>

\* The clock advances by five minutes.
Invoice_tick ==
    /\ know < MaxInvoiceTicks * InvoiceTickMs
    /\ know' = know + InvoiceTickMs
    /\ UNCHANGED <<cache, iops, serverVersion, lastOp, notInvoice>>

InvoiceInit ==
    /\ iops = 0
    /\ serverVersion = 1
    /\ lastOp = <<>>

InvoiceNext ==
    \/ \E f \in Filters : Invoice_getInvoices(f)
    \/ \E i \in Invoices : Invoice_getInvoiceById(i)
    \/ Invoice_createInvoice
    \/ \E i \in Invoices : Invoice_updateInvoice(i)
    \/ \E i \in Invoices : Invoice_deleteInvoice(i)
    \/ Server_getApiStatus
    \/ Server_companyInfo
    \/ Invoice_tick

QueueInit ==
    /\ queue = <<>>
    /\ activeTasks = 0
    /\ requestsInWindow = <<>>
    /\ processing = FALSE
    /\ qnow = 0
    /\ taskState = [t \in Tasks |-> "new"]
    /\ startTimes = <<>>
    /\ paused = FALSE


QueueNext ==
    \/ \E t \in Tasks : Queue_add(t)
    \/ Queue_settleAny
    \/ Queue_clear
    \/ Queue_pause
    \/ Queue_resume
    \/ Queue_getStats
    \/ Queue_tick

Init ==
    /\ QueueInit
    /\ ClientInit
    /\ CacheInit
    /\ RetryInit
    /\ InvoiceInit
    /\ PQInit
    /\ ExecutorInit
    /\ MemInit

\* The queue and the client never touch the cache: their specifications take
\* it as constructed with cacheConfig.enabled false.
InitCacheDisabled ==
    /\ Init
    /\ ~persist

QueueSpec == InitCacheDisabled /\ [][QueueNext]_vars

\* The clock keeps advancing and every running task eventually settles;
\* nothing else is scheduled by the queue (it sets no timer of its own).
FairQueueSpec == QueueSpec /\ WF_vars(Queue_tick) /\ WF_vars(Queue_settleAny)

ClientSpec == InitCacheDisabled /\ [][ClientNext]_vars
ErrorSpec == InitCacheDisabled /\ [][ErrorNext]_vars
UserSpec == InitCacheDisabled /\ [][UserNext]_vars

CacheSpec == Init /\ [][CacheNext]_vars
\* The cache with callers that also pass a negative ttl to set.
TtlSpec == Init /\ [][TtlNext]_vars
WritesSpec == Init /\ [][WritesNext]_vars

RetrySpec == InitCacheDisabled /\ [][RetryNext]_vars
RetryAnySpec == InitCacheDisabled /\ [][RetryAnyNext]_vars

PQSpec == InitCacheDisabled /\ [][PQNext]_vars
ExecutorSpec == InitCacheDisabled /\ [][ExecutorNext]_vars
MemSpec == InitCacheDisabled /\ [][MemNext]_vars
\* The PQueue's timers fire, every function eventually returns, and
\* promises that can resolve do.
FairPQSpec ==
    PQSpec /\ WF_vars(PQ_tick) /\ WF_vars(PQ_settleAny) /\ WF_vars(PQ_timeoutAny)
           /\ WF_vars(PQ_onIdle)

\* The business service with the cache kept in memory only.
InvoiceSpec == InitCacheDisabled /\ [][InvoiceNext]_vars

(***************************************************************************)
(*                       Claims about QueueService                         *)
(***************************************************************************)

RunningTasks == {t \in Tasks : taskState[t] = "running"}
SettledTasks == {t \in Tasks : taskState[t] \in {"resolved", "rejected"}}

\* C1: the number of tasks started and not yet settled never exceeds the
\* concurrency limit, activeTasks always equals that number and is never
\* negative; and while the per-minute cap is out of play (fewer starts so far
\* than rateLimitPerMinute), a non-empty pending queue means that exactly
\* `concurrency` tasks are running.
C1_ConcurrencyBound ==
    /\ activeTasks = Cardinality(RunningTasks)
    /\ activeTasks >= 0
    /\ activeTasks <= concurrency
    /\ (Len(queue) > 0 /\ Len(startTimes) < rateLimitPerMinute)
          => activeTasks = concurrency

\* concurrency + 1 tasks submitted, none settled: concurrency run, one waits.
C1_Witness ==
    /\ SettledTasks = {}
    /\ Cardinality(RunningTasks) = concurrency
    /\ Len(queue) = 1
    /\ activeTasks = concurrency

\* Starts inside the trailing window (at - WindowMs, at].
StartsInWindow(at) ==
    Cardinality({i \in 1..Len(startTimes) :
                    startTimes[i] > at - WindowMs /\ startTimes[i] <= at})

\* C2: no trailing 60-second window ending at a start holds more than
\* rateLimitPerMinute starts; the recorded timestamps are start times (the
\* latest starts, in order: nothing is recorded at enqueue time); so the
\* (rateLimitPerMinute+1)-th start is at least a window after the first.
C2_RateWindow ==
    /\ \A i \in 1..Len(startTimes) : StartsInWindow(startTimes[i]) <= rateLimitPerMinute
    /\ Len(requestsInWindow) <= Len(startTimes)
    /\ requestsInWindow =
          SubSeq(startTimes, Len(startTimes) - Len(requestsInWindow) + 1, Len(startTimes))
    /\ \A i \in 1..Len(startTimes) :
          i > rateLimitPerMinute
             => startTimes[i] >= startTimes[i - rateLimitPerMinute] + WindowMs

\* rateLimitPerMinute starts at one instant, and the next start exactly when
\* the oldest of them has left the window.
C2_Witness ==
    /\ Len(startTimes) = rateLimitPerMinute + 1
    /\ startTimes[rateLimitPerMinute] = startTimes[1]
    /\ startTimes[rateLimitPerMinute + 1] = startTimes[1] + WindowMs

\* Tasks are pending, none is running (so only the per-minute cap held them
\* back), and the window has aged enough to admit one.
RateBlockedAndAgedOut ==
    /\ Len(queue) > 0
    /\ activeTasks = 0
    /\ Len(cleanOldRequests(requestsInWindow, qnow)) < rateLimitPerMinute

\* C3: the queue drains greedily: when pending tasks were held back only by
\* the per-minute cap and the window has aged out, a pending task is
\* eventually started (or the queue emptied) with no further call needed.
C3_GreedyDrain ==
    RateBlockedAndAgedOut ~> (Len(queue) = 0 \/ activeTasks > 0)

\* The tasks that go from pending to running in a step.
StartedInStep == {t \in Tasks : taskState[t] = "pending" /\ taskState'[t] = "running"}

\* C11: between pause() and resume() no pending task starts, neither on
\* add() nor when a running task settles.
C11_PauseStopsAdmission ==
    [][(paused /\ paused') => StartedInStep = {}]_vars

\* C12: pending tasks are admitted in priority order: when a task starts, no
\* task left pending has a higher priority, and none of equal priority was
\* added before it.
C12_PriorityOrder ==
    [][\A u \in StartedInStep : \A t \in SeqToSet(queue') :
          /\ priorityOf(t) <= priorityOf(u)
          /\ priorityOf(t) = priorityOf(u) => t > u]_vars

\* C13: a call with retries = n whose task fails k < n times and then
\* succeeds resolves with the value, calls onRetry with 1..k, waits
\* retryDelay * 2^(attempt-1) after each failed attempt, and does it all in
\* the one slot of its one admission.
C13_RetryInOneSlot ==
    (awPhase = "done" /\ awFails < awRetries)
        => /\ awOutcome = "value"
           /\ awOnRetry = [i \in 1..awFails |-> i]
           /\ awDelays = [i \in 1..awFails |-> defaultRetryDelay * Pow2(i - 1)]
           /\ \A i \in 2..awFails : awDelays[i] = 2 * awDelays[i - 1]
           /\ awAdmissions = 1
           /\ awOutside = 0

\* C35: when a call of addWithRetry has run to its end the task has been
\* invoked at least once, whatever retries was; and a task that fails on
\* every attempt has been invoked exactly `retries` times, onRetry called
\* retries - 1 times, and the caller's promise is rejected with the error of
\* the last attempt, never with null.
C35_RetriesExhausted ==
    awPhase = "done" =>
        /\ awFailed >= 1 \/ awOutcome = "value"
        /\ awOutcome # "null"
        /\ awFails >= awRetries =>
               /\ awFailed = awRetries
               /\ Len(awOnRetry) = awRetries - 1
               /\ awOutcome = "lastError"

\* The tasks of the executor started inside the trailing window
\* (at - windowMs, at].
ExStartsInWindow(at) ==
    Cardinality({i \in 1..Len(exStarts) :
                    exStarts[i] > at - windowMs /\ exStarts[i] <= at})

\* C36: no trailing window of windowMs holds more than maxRequests starts of
\* the executor's tasks, also when several of them sleep in queue slots at
\* the same time.
C36_ExecutorRateBound ==
    \A i \in 1..Len(exStarts) : ExStartsInWindow(exStarts[i]) <= maxRequests

\* C24: clear() discards every pending task and touches no running one, and
\* a discarded task is never started.
C24_ClearDiscardsPending ==
    [][/\ \A t \in Tasks : taskState[t] = "discarded" => taskState'[t] = "discarded"
       /\ (\E t \in Tasks : taskState[t] = "pending" /\ taskState'[t] = "discarded")
             => /\ \A t \in Tasks : taskState[t] = "pending" => taskState'[t] = "discarded"
                /\ \A t \in Tasks : taskState[t] = "running" => taskState'[t] = "running"
                /\ activeTasks' = activeTasks]_vars

\* A task was discarded while an earlier one was running, which still runs,
\* and a task added after the clear has been started.
C24_Witness ==
    \E t, u, v \in Tasks :
        /\ u < t /\ t < v
        /\ taskState[t] = "discarded"
        /\ taskState[u] = "running"
        /\ taskState[v] \in {"running", "resolved", "rejected"}

\* C32: when a running task fails, activeTasks goes down by one for it, the
\* queue is processed again (a task still pending afterwards is held back by
\* the concurrency limit or the per-minute cap), and no timestamp inside the
\* window is taken out of it: the failed task's start keeps counting.
C32_FailedTaskVacates ==
    [][\A t \in Tasks :
          (taskState[t] = "running" /\ taskState'[t] = "rejected") =>
              /\ activeTasks' = activeTasks - 1 + Cardinality(StartedInStep)
              /\ activeTasks' = Cardinality({u \in Tasks : taskState'[u] = "running"})
              /\ Len(queue') > 0 =>
                     \/ activeTasks' >= concurrency
                     \/ Len(cleanOldRequests(requestsInWindow', qnow)) >= rateLimitPerMinute
              /\ cleanOldRequests(requestsInWindow', qnow) =
                     cleanOldRequests(requestsInWindow, qnow)
                        \o [i \in 1..Cardinality(StartedInStep) |-> qnow]]_vars

\* concurrency + 1 tasks were added at one instant; one of the running ones
\* failed, nothing else settled: the task that waited runs in its slot, and
\* the window still counts the start of the failed one.
C32_Witness ==
    /\ Cardinality({t \in Tasks : taskState[t] = "rejected"}) = 1
    /\ Cardinality({t \in Tasks : taskState[t] = "resolved"}) = 0
    /\ Cardinality(RunningTasks) = concurrency
    /\ Len(startTimes) = concurrency + 1
    /\ Len(requestsInWindow) = concurrency + 1
    /\ \A i \in 1..Len(requestsInWindow) : requestsInWindow[i] = qnow

\* C33: the promise add() returned for a task is eventually settled, when
\* every task that runs terminates: also the promise of a task that clear()
\* took out of the queue while it was pending.
C33_EveryFutureSettles ==
    \A t \in Tasks :
        (taskState[t] \in {"pending", "running", "discarded"})
            ~> (taskState[t] \in {"resolved", "rejected"})

\* The tasks whose function has been started and has not returned or thrown.
Executing == {t \in PTasks : pqTask[t] \in {"running", "detached"}}

\* C25: the promise add() returned settles only with the outcome of the
\* task's own function: it is pending until the function returns or throws,
\* then fulfilled if it returned and rejected with the task's error if it
\* threw.
C25_TransparentConduit ==
    \A t \in PTasks :
        /\ pqFuture[t] # "pending" => pqTask[t] \in {"returned", "threw"}
        /\ pqTask[t] = "returned" => pqFuture[t] = "value"
        /\ pqTask[t] = "threw" => pqFuture[t] = "error"

\* C26: once shutdown() has been called no task is started, shutdown()
\* returns only when no task is executing, and it eventually returns.
C26_ShutdownTerminates ==
    /\ [](pqLate = {})
    /\ [][(pqShutdown # "returned" /\ pqShutdown' = "returned")
            => \A t \in PTasks : pqTask'[t] \notin {"running", "detached"}]_vars
    /\ (pqShutdown = "waiting") ~> (pqShutdown = "returned")

\* C27: a task whose function has not yet returned or thrown occupies a
\* slot of the queue, one each, and the promise add() returned for it is
\* pending.
C27_NoQueueTimeout ==
    /\ \A t \in Executing : pqTask[t] = "running" /\ pqFuture[t] = "pending"
    /\ pqPending(PQState) = Cardinality(Executing)

(***************************************************************************)
(*            Claims about InvoiceService and the server's calls           *)
(***************************************************************************)

\* The entries the cache held for the key of the operation that has just
\* returned, unexpired when it was called.
HeldUnexpired ==
    {i \in 1..Len(lastOp[1].before) :
        /\ lastOp[1].before[i].key = generateKey(lastOp[1].key)
        /\ lastOp[1].at <= lastOp[1].before[i].expiresAt}

Reads == {"getInvoices", "getInvoiceById"}

\* C14: a getInvoices or getInvoiceById whose key the cache holds unexpired
\* returns the cached value, passes no task to the queue and makes no call
\* of the API client.
C14_CachedReadNoTraffic ==
    (lastOp # <<>> /\ lastOp[1].op \in Reads)
        => \A i \in HeldUnexpired :
              /\ lastOp[1].ret = lastOp[1].before[i].value
              /\ lastOp[1].admissions = 0
              /\ lastOp[1].apiCalls = 0

\* A read served from an entry cached five minutes or more before.
C14_Witness ==
    /\ lastOp # <<>>
    /\ lastOp[1].op \in Reads
    /\ \E i \in HeldUnexpired :
          /\ lastOp[1].before[i].createdAt < lastOp[1].at
          /\ lastOp[1].ret = lastOp[1].before[i].value
    /\ lastOp[1].admissions = 0

\* C15: a getInvoices that follows a successful create, update or delete
\* does not return a list cached before it: the list it returns is the one
\* of the current state of the invoices.
C15_UpdateInvalidatesLists ==
    (lastOp # <<>> /\ lastOp[1].op = "getInvoices") => lastOp[1].ret = serverVersion

\* C16: every call of the API client is made inside a task passed to
\* queueService.add.
C16_AllCallsQueued ==
    lastOp # <<>> => lastOp[1].unqueued = 0

(***************************************************************************)
(*                       Claims about QBOApiClient                         *)
(***************************************************************************)

InFlightTokenCalls == {c \in 1..Len(calls) : calls[c].state = "inflight"}

\* C4: at most one call to the token endpoint is in flight at any time,
\* whether it was started by ensureValidToken or by the 401 branch.
C4_SingleFlightRefresh == Cardinality(InFlightTokenCalls) <= 1

\* C5: requests that need a refresh before their first dispatch while one is
\* in progress share it: all requests waiting in ensureValidToken await the
\* same token call, at most one call started by ensureValidToken is in
\* flight, and requests that awaited the same call are first dispatched with
\* the same access token, the one that call returned.
C5_ConcurrentRefreshShared ==
    /\ \A r1, r2 \in Reqs :
          (rpc[r1] = "awaitRefresh" /\ rpc[r2] = "awaitRefresh") => rawait[r1] = rawait[r2]
    /\ Cardinality({c \in InFlightTokenCalls : calls[c].origin = "ensure"}) <= 1
    /\ \A r1, r2 \in Reqs :
          (/\ firstRefresh[r1] # 0
           /\ firstRefresh[r1] = firstRefresh[r2]
           /\ sends[r1] > 0
           /\ sends[r2] > 0)
             => /\ sentToken[r1][1] = sentToken[r2][1]
                /\ sentToken[r1][1] = firstRefresh[r1]

\* Two requests issued on an expired token, one call to the token endpoint,
\* both dispatched with the token it returned.
C5_Witness ==
    /\ Len(calls) = 1
    /\ calls[1].state = "ok"
    /\ firstRefresh[1] = 1
    /\ firstRefresh[2] = 1
    /\ sentToken[1] = <<1>>
    /\ sentToken[2] = <<1>>

\* The refresh the 401 branch of request r started, if any, has succeeded.
Refreshed401(r) ==
    \E c \in 1..Len(calls) :
        calls[c].origin = "r401" /\ calls[c].req = r /\ calls[c].state = "ok"

\* C6: a request starts a refresh from the 401 branch exactly once, on its
\* first 401; it is re-sent exactly once, when that refresh succeeds; a
\* second 401 ends it with AuthenticationError; it is never sent a third time.
C6_Single401Retry ==
    \A r \in Reqs :
        /\ n401[r] <= 2
        /\ refreshes401[r] = (IF n401[r] >= 1 THEN 1 ELSE 0)
        /\ sends[r] <= 2
        /\ sends[r] = 2 <=> Refreshed401(r)
        /\ n401[r] = 2 => (rpc[r] = "done" /\ outcome[r] = "AuthenticationError")

\* A request that got 401 twice: one refresh, two dispatches, the second
\* with the refreshed token, and AuthenticationError for the caller.
C6_Witness ==
    \E r \in Reqs :
        /\ n401[r] = 2
        /\ refreshes401[r] = 1
        /\ sends[r] = 2
        /\ sentToken[r][2] # sentToken[r][1]
        /\ outcome[r] = "AuthenticationError"

\* C7: with retry enabled, NetworkError reaches the caller only after the
\* request was re-sent retryAttempts times, with the delays
\* retryDelay * 2^(attempt-1), each longer than the one before.
C7_RetryThenNetworkError ==
    \A r \in Reqs :
        outcome[r] = "NetworkError"
           => /\ retryCount[r] = retryAttempts
              /\ retryDelays[r] = [i \in 1..retryAttempts |-> retryDelay * Pow2(i - 1)]
              /\ \A i \in 1..(retryAttempts - 1) : retryDelays[r][i] < retryDelays[r][i + 1]

\* C17: a request that receives HTTP 429 reaches the caller as a
\* RateLimitError that carries the value of the Retry-After header when the
\* response has one (the seconds of a delay-seconds header, some number for
\* an HTTP-date) and no value when it has none, and is not sent again.
C17_RateLimitSurfaced ==
    \A r \in Reqs :
        received[r].status = 429
           => LET h == received[r].retryAfter
                  v == thrown[r].details
              IN  /\ rpc[r] = "done"
                  /\ outcome[r] = "RateLimitError"
                  /\ v.of = "retryAfter"
                  /\ h.form = "absent" => v.kind = "undefined"
                  /\ h.form = "delay-seconds" => (v.kind = "number" /\ v.n = h.seconds)
                  /\ h.form = "HTTP-date" => v.kind = "number"

\* The 4xx statuses other than 401 and 429, and the code the response
\* handler gives each.
Permanent4xx == {s \in Statuses \cup MoreStatuses : s \in 400..499 /\ s \notin {401, 429}}
CodeOfStatus(status) ==
    CASE status = 400 -> "VALIDATION_ERROR"
      [] status = 403 -> "FORBIDDEN"
      [] status = 404 -> "NOT_FOUND"
      [] OTHER -> "UNKNOWN_ERROR"

\* C18: a request that receives 400, 403, 404 or another 4xx status except
\* 401 and 429 is not sent again (it was dispatched once, plus once for
\* every earlier retry and 401 refresh), and its caller receives an error
\* whose details are the payload of the response and whose code and status
\* code are those of the status.
C18_PermanentErrorSurfaced ==
    \A r \in Reqs :
        received[r].status \in Permanent4xx
           => /\ rpc[r] = "done"
              /\ sends[r] = 1 + retryCount[r] + refreshes401[r]
              /\ thrown[r].details = received[r].data
              /\ thrown[r].code = CodeOfStatus(received[r].status)
              /\ thrown[r].statusCode = Num(received[r].status)

\* Each of the four kinds of permanent status has reached a caller, one of
\* them as the first and only response of its request.
C18_Witness ==
    /\ \E r \in Reqs : /\ received[r].status = 409
                       /\ rpc[r] = "done"
                       /\ sends[r] = 1
                       /\ thrown[r].code = "UNKNOWN_ERROR"
                       /\ thrown[r].details = Body(409)
    /\ \E r \in Reqs : /\ received[r].status \in {400, 403, 404}
                       /\ rpc[r] = "done"
                       /\ thrown[r].details = Body(received[r].status)

\* C37: retry eligibility and error kind agree for every HTTP status: a
\* request whose last response had a 5xx status ends with NetworkError and
\* one whose last response had a 4xx status does not; and a status answer
\* that ends as NetworkError was eligible for retry, so it reached the
\* caller only after retryAttempts retries.
C37_RetryMatchesErrorKind ==
    \A r \in Reqs :
        (rpc[r] = "done" /\ thrown[r] # NoError /\ received[r].status # NoResponse)
           => /\ received[r].status \in 500..599 => thrown[r].name = "NetworkError"
              /\ received[r].status \in 400..499 => thrown[r].name # "NetworkError"
              /\ thrown[r].name = "NetworkError" => retryCount[r] = retryAttempts

\* C19: when the token refresh a request awaits fails, that step leaves
\* this.tokens as it was, makes no further call to the token endpoint, and
\* settles the request with an AuthenticationError, whether the refresh was
\* started by ensureValidToken or by the 401 branch.
C19_RefreshFailureIsAuthError ==
    [][\A r \in Reqs :
          (/\ rpc[r] \in {"awaitRefresh", "await401"}
           /\ calls[rawait[r]].state = "inflight"
           /\ calls'[rawait[r]].state = "failed")
             => /\ tokens' = tokens
                /\ Len(calls') = Len(calls)
                /\ rpc'[r] = "done"
                /\ outcome'[r] = "AuthenticationError"]_vars

\* C20: no request leaves with the initial empty access token or with a
\* token that is expired or within the buffer when it leaves, be it sent
\* through the request interceptor or by getCurrentUser.
C20_NoStaleTokenSent ==
    /\ \A r \in Reqs : \A i \in 1..Len(sentToken[r]) :
           sentToken[r][i] # 0 /\ sentFresh[r][i]
    /\ \A i \in 1..Len(userSent) : userSent[i].token # 0 /\ userSent[i].fresh

\* The refreshes that have completed and replaced this.tokens; the calls are
\* numbered in the order they were started, and a token is numbered by the
\* call that obtained it.
CompletedRefreshes(cs) == {c \in 1..Len(cs) : cs[c].state = "ok"}

\* C21: this.tokens is never replaced by a token obtained from a refresh
\* that was started before the refresh whose token it holds, and no request
\* is dispatched with a token older than that of a completed refresh.
C21_RefreshResultsOrdered ==
    [][/\ tokens'.accessToken # tokens.accessToken
            => tokens'.accessToken > tokens.accessToken
       /\ \A r \in Reqs :
             Len(sentToken'[r]) > Len(sentToken[r])
                => \A c \in CompletedRefreshes(calls') :
                      sentToken'[r][Len(sentToken'[r])] >= c]_vars

\* A request that has just been issued finds no refresh in flight in the
\* single-flight slot.
NoRefreshInFlight ==
    tokenRefreshPromise = 0 \/ calls[tokenRefreshPromise].state # "inflight"

\* C34, the slot: tokenRefreshPromise holds nothing once the refresh it held
\* has settled, whether that refresh succeeded or failed.
C34_SlotCleared ==
    tokenRefreshPromise' # 0 => calls'[tokenRefreshPromise'].state = "inflight"

\* C34, the recovery: a request issued when the token needs a refresh and
\* no refresh is in flight starts a call to the token endpoint.
C34_NewRefreshStarted ==
    \A r \in Reqs :
        (rpc[r] = "idle" /\ rpc'[r] # "idle" /\ needsRefresh(tokens, cnow)
           /\ NoRefreshInFlight)
            => Len(calls') = Len(calls) + 1

\* C34: after a failed token refresh the client recovers: the slot is
\* cleared when the refresh it holds settles, on success and on failure, and
\* a later request that needs a valid token starts a new refresh instead of
\* awaiting the rejected one.
C34_RecoversAfterFailedRefresh ==
    [][C34_SlotCleared /\ C34_NewRefreshStarted]_vars

(***************************************************************************)
(*                 Claims about CacheService (persistent)                  *)
(***************************************************************************)

\* The digests of the entries held.
keysOf(c) == {c[i].key : i \in 1..Len(c)}

\* C8, first half: a get that directly follows set(key, value, ttl) with
\* ttl > 0 on the same key returns the value that set stored.
C8_GetRightAfterSet ==
    (lastGet # <<>> /\ lastGet[1].afterSet /\ lastSet[1].ttl > 0)
        => lastGet[1].ret = lastSet[1].value

\* C8, second half: a get of the key of the latest set(key, value, ttl),
\* ttl > 0, made once the clock is past ttl seconds after that set, returns
\* null.
C8_GetPastTTL ==
    (/\ lastGet # <<>>
     /\ lastSet # <<>>
     /\ lastGet[1].key = lastSet[1].key
     /\ lastSet[1].ttl > 0
     /\ know > lastSet[1].at + lastSet[1].ttl * MsPerSecond)
        => lastGet[1].ret = Null

\* C8: for every key, value and ttl > 0, set(key, value, ttl) followed
\* immediately by get(key) returns value, and once the clock has advanced
\* past ttl seconds get(key) returns null.
C8_SetThenGet == C8_GetRightAfterSet /\ C8_GetPastTTL

\* C9: the cache never holds more than maxSize entries.
C9_SizeBound == Len(cache) <= maxSize

\* C10: when set runs evictLRU, the entry removed is one that is not expired
\* and whose score hits / ageInSeconds is finite, no entry that is not
\* expired has a lower score, and nothing else is removed; when no entry is
\* removed, no unexpired entry has a finite score.  Every entry present is
\* compared, so the scan has passed over each of them.
C10_EvictsLowestScore ==
    lastEvict # <<>> =>
        LET ev == lastEvict[1]
            b == ev.before
            live == {i \in 1..Len(b) : ev.at <= b[i].expiresAt}
            sc(i) == score(b[i], ev.at)
            new == generateKey(lastSet[1].key)
        IN  IF ev.victim # NoKey
            THEN /\ \E v \in live :
                       /\ b[v].key = ev.victim
                       /\ scoreLess(sc(v), Infinity)
                       /\ \A i \in live : ~scoreLess(sc(i), sc(v))
                 /\ keysOf(cache) = (keysOf(b) \ {ev.victim}) \cup {new}
            ELSE /\ \A i \in live : ~scoreLess(sc(i), Infinity)
                 /\ keysOf(cache) = keysOf(b) \cup {new}

\* An eviction that passed over an expired entry and removed the lower of
\* two unexpired entries with different scores.
C10_Witness ==
    /\ lastEvict # <<>>
    /\ lastEvict[1].victim # NoKey
    /\ LET ev == lastEvict[1]
           b == ev.before
       IN  /\ \E i \in 1..Len(b) : ev.at > b[i].expiresAt
           /\ \E v, i \in 1..Len(b) :
                  /\ b[v].key = ev.victim
                  /\ ev.at <= b[i].expiresAt
                  /\ scoreLess(score(b[v], ev.at), score(b[i], ev.at))

\* C22: from clear() until the next set(), the cache holds no entry (the
\* size getStats reports is 0) and every get returns absent, whatever the
\* startup load or a persistence write was doing when clear() was called.
C22_ClearEmpties ==
    cleared => /\ Len(cache) = 0
               /\ lastGet # <<>> => lastGet[1].ret = Null

\* C23: a set on a key that is present, made when the cache holds maxSize
\* entries, evicts nothing: the same keys are present after it, and as many
\* entries.
C23_OverwriteKeepsEntries ==
    (/\ justSet
     /\ lastEvict # <<>>
     /\ Len(lastEvict[1].before) = maxSize
     /\ generateKey(lastSet[1].key) \in keysOf(lastEvict[1].before))
        => /\ keysOf(cache) = keysOf(lastEvict[1].before)
           /\ Len(cache) = Len(lastEvict[1].before)

\* C28: a get(key) returns absent and changes nothing when the cache has no
\* entry for the key; returns absent and removes just that entry when
\* now > expiresAt; and otherwise returns the stored value and adds 1 to the
\* hits of that entry, every other entry staying as it was. No sweep is
\* needed for it.
C28_GetEnforcesExpiry ==
    [][(ops' = ops + 1 /\ lastGet' # <<>>) =>
          LET dk == generateKey(lastGet'[1].key)
              held == {i \in 1..Len(cache) : cache[i].key = dk}
              others(c) == {c[i] : i \in {j \in 1..Len(c) : c[j].key # dk}}
          IN  /\ others(cache') = others(cache)
              /\ \A i \in held :
                     IF know > cache[i].expiresAt
                     THEN /\ lastGet'[1].ret = Null
                          /\ dk \notin keysOf(cache')
                     ELSE /\ lastGet'[1].ret = cache[i].value
                          /\ \E j \in 1..Len(cache') :
                                 cache'[j] = [cache[i] EXCEPT !.hits = @ + 1]
                          /\ Len(cache') = Len(cache)
              /\ held = {} => (lastGet'[1].ret = Null /\ cache' = cache)]_vars

\* A get made at the very instant its entry expires (now = expiresAt), with
\* no sweep in between, returned the stored value and counted the hit.
C28_Witness ==
    /\ lastGet # <<>>
    /\ lastGet[1].ret # Null
    /\ \E i \in 1..Len(cache) :
           /\ cache[i].key = generateKey(lastGet[1].key)
           /\ cache[i].expiresAt = know
           /\ cache[i].value = lastGet[1].ret
           /\ cache[i].hits > 0

\* What a sweep run at `now` leaves of the entries `before`, when it removes
\* the entries whose expiresAt satisfies gone(expiresAt, now) and no other.
SweepLeaves(before, now, gone(_, _)) ==
    /\ \A i \in 1..Len(before) :
           gone(before[i].expiresAt, now) <=> before[i].key \notin keysOf(cache)
    /\ \A j \in 1..Len(cache) : \E i \in 1..Len(before) : cache[j] = before[i]

\* C29 as the claim words it: a run of the sweep removes every entry with
\* expiresAt <= now, an entry with expiresAt = now among them, and no entry
\* with expiresAt > now.
C29_SweepRemovesAtExpiry ==
    lastSweep # <<>> =>
        SweepLeaves(lastSweep[1].before, lastSweep[1].at, LAMBDA x, now : x <= now)

\* C29, amended: a run of the sweep removes every entry with expiresAt < now
\* and no other: an entry with expiresAt = now stays, as do those with
\* expiresAt > now, each unchanged.
C29_SweepRemovesExpired ==
    lastSweep # <<>> =>
        SweepLeaves(lastSweep[1].before, lastSweep[1].at, LAMBDA x, now : x < now)

\* A sweep that found an entry past its expiry and one at the instant of its
\* expiry: the first is gone, the second is still there.
C29_Witness ==
    /\ lastSweep # <<>>
    /\ LET b == lastSweep[1].before
       IN  \E i, j \in 1..Len(b) :
               /\ b[i].expiresAt < lastSweep[1].at
               /\ b[i].key \notin keysOf(cache)
               /\ b[j].expiresAt = lastSweep[1].at
               /\ b[j].key \in keysOf(cache)

\* What the startup load, run at `now` on the file `data` with the entries
\* `before` in the map, leaves: the entries of the file whose expiresAt does
\* not satisfy gone(expiresAt, now) are in the map as the file has them, and
\* nothing else has come or gone; a missing or unparsable file changes
\* nothing.
LoadAdmits(data, before, now, gone(_, _)) ==
    LET file == {reviveDates(data.entries[i]) : i \in 1..Len(data.entries)}
        admitted == {e \in file : ~gone(e.expiresAt, now)}
    IN  /\ ~data.exists => cache = before
        /\ \A e \in admitted : \E j \in 1..Len(cache) : cache[j] = e
        /\ \A j \in 1..Len(cache) :
               \/ cache[j] \in admitted
               \/ \E i \in 1..Len(before) : cache[j] = before[i]
        /\ \A i \in 1..Len(before) : before[i].key \in keysOf(cache)

\* C30 as the claim words it: the startup load admits the entries of the
\* file with expiresAt > now and discards those with expiresAt <= now; a
\* missing or corrupt file adds nothing and raises no error.
C30_LoadDiscardsAtExpiry ==
    lastLoad # <<>> =>
        LoadAdmits(lastLoad[1].data, lastLoad[1].before, lastLoad[1].at,
                   LAMBDA x, now : x <= now)

\* C30, amended: the startup load admits the entries of the file with
\* expiresAt >= now and discards those with expiresAt < now; a missing or
\* corrupt file adds nothing and raises no error.
C30_LoadDiscardsExpired ==
    lastLoad # <<>> =>
        LoadAdmits(lastLoad[1].data, lastLoad[1].before, lastLoad[1].at,
                   LAMBDA x, now : x < now)

\* A load that read a file holding an entry past its expiry and an entry at
\* the instant of its expiry: only the second is in the map.
C30_Witness ==
    /\ lastLoad # <<>>
    /\ lastLoad[1].data.exists
    /\ LET l == lastLoad[1]
           file == {reviveDates(l.data.entries[i]) : i \in 1..Len(l.data.entries)}
       IN  \E e, f \in file :
               /\ e.expiresAt < l.at
               /\ e.key \notin keysOf(cache)
               /\ f.expiresAt = l.at
               /\ \E j \in 1..Len(cache) : cache[j] = f

\* A load that found no file, or one that does not parse, left the map as it
\* was.
C30_WitnessNoFile ==
    /\ lastLoad # <<>>
    /\ ~lastLoad[1].data.exists
    /\ cache = lastLoad[1].before

\* C31: every entry the cache holds has expiresAt > createdAt, whatever ttl
\* set was called with: omitted or 0, positive, or negative.
C31_ExpiresAfterCreated ==
    \A i \in 1..Len(cache) : cache[i].expiresAt > cache[i].createdAt

\* C39: the in-memory map is authoritative over the persistence file: when
\* the startup load completes, every entry stored by a set() of this run
\* (created at or after construction) is still in the map with the value
\* that set() stored.
C39_LoadKeepsNewerValues ==
    [][(~loaded /\ loaded') =>
          \A i \in 1..Len(cache) :
              cache[i].createdAt >= 0 =>
                  /\ mapHas(cache', cache[i].key)
                  /\ cache'[mapIndex(cache', cache[i].key)].value = cache[i].value]_vars

\* C40: persistence converges to the in-memory state: once every write
\* that was started has finished, after a clear() (and no set() since) the
\* file holds no entry that a set() of this run stored before the clear.
C40_ClearedFileStaysClear ==
    (persist /\ cleared /\ writes = <<>> /\ disk.exists)
       => \A i \in 1..Len(disk.entries) : newDate(disk.entries[i].createdAt) < 0

(***************************************************************************)
(*              Claims about the in-memory CacheService                    *)
(***************************************************************************)

\* C38: in the in-memory cache, a get(k) that returns a value returns the
\* value last stored by set under the same logical key k and not removed
\* through k since: no value stored under another key, and none after a
\* delete(k) or a clear().
C38_KeysIsolated ==
    (memLastGet # <<>> /\ memLastGet.ret # Null)
       => memLastGet.ret = memWritten[memLastGet.key]
====
